---- MODULE Spec2Model ----
(***************************************************************************)
(* Filename-metadata extraction and daily-coverage filtering of the MARRS  *)
(* acoustic-study scripts (combine_counts.py, shannon_index.py,            *)
(* settlement_cues.py, phonic_richness_hourly.py and its helpers/ copy).   *)
(*                                                                         *)
(* A Python str is a sequence of one-character strings.  A call result is *)
(* a record: Ret(v) for a returned value, Raise(e) for a raised exception, *)
(* NotCalled before the call is made.                                      *)
(***************************************************************************)
EXTENDS Integers, Sequences, FiniteSets, TLC

VARIABLES
  token,          \* SpecParse: the filename token handed to the extractors
  treatment_res,  \* SpecParse: result of parse_treatment(token)
  site_res,       \* SpecParse: result of parse_site(token)
  raw_cell,       \* SpecTime: a "filename" cell of raw_file_list.csv
  region,         \* SpecTime: the region being processed
  capture,        \* SpecTime: the instant the recorder wrote into the name
  dt_res,         \* SpecTime: parse_filename_datetime (shannon_index.py)
  date_res,       \* SpecTime: parse_date (combine_counts.py)
  simple_res,     \* SpecTime: dt_str of load_raw_file_list_simple (settlement_cues.py)
  hourly_res,     \* SpecTime: date_str of helpers/phonic_richness_hourly.py
  duty_cycle_arg, \* SpecExpected: the duty cycle handed to get_expected_daily_recordings
  expected_res,   \* SpecExpected: its result
  country_arg,    \* Spec: the country handed to process_country
  raw_file_list,  \* Spec: output_dir_<country>/raw_file_list.csv
  inference_csv,  \* Spec: agile_outputs/<sound>/<sound>_inference.csv
  pc,             \* Spec: how far process_country has got
  df_raw_combos,  \* Spec: what load_raw_file_list returned
  df_infer_counts, \* Spec: what load_inference_counts returned
  df_merged,      \* Spec: what process_country returns
  log,            \* Spec: the records handed to logging
  valid_sets,     \* SpecRerun: what successive runs of the coverage filter returned
  base_dir,       \* SpecMain: what os.getenv("BASE_DIR") gives
  files,          \* SpecMain: the two csv files of every region
  countries,      \* SpecMain: the regions main has still to process, in order
  combined_df,    \* SpecMain: main's combined_df
  output_csv,     \* SpecMain: the file at OUTPUT_PATH
  main_pc,        \* SpecMain: how far the script has got
  kernel_files,   \* SpecKernel: every region's listing and agile_outputs folder
  kernel_countries, \* SpecKernel: the regions main has still to process
  kernel_out,     \* SpecKernel: the detection times written and the datasets handed to gaussian_kde
  kernel_log,     \* SpecKernel: the records handed to logging
  kernel_pc,      \* SpecKernel: how far temporal_overlap.main has got
  night_country, \* SpecNight: the region handed to process_country_nighttime_proportion
  night_files, \* SpecNight: the region's listing and agile_outputs folder
  sun_times, \* SpecNight: the sunrise and sunset astral gives for the region
  df_total, \* SpecNight: what gather_night_total_windows returned
  df_detect, \* SpecNight: what gather_night_inferences returned
  df_night, \* SpecNight: what process_country_nighttime_proportion returns
  night_log, \* SpecNight: the records handed to logging
  night_pc, \* SpecNight: how far process_country_nighttime_proportion has got
  rich_country, \* SpecRichness: the region handed to process_country_phonic_richness
  rich_files, \* SpecRichness: the region's listing and agile_outputs folder
  df_coverage, \* SpecRichness: what load_raw_file_list returned
  df_presence, \* SpecRichness: what gather_sound_presence returned
  df_rich, \* SpecRichness: what process_country_phonic_richness returns
  rich_log, \* SpecRichness: the records handed to logging
  rich_pc, \* SpecRichness: how far process_country_phonic_richness has got
  aggreg_files, \* SpecAggreg: every region's listing and agile_outputs folder
  aggreg_countries, \* SpecAggreg: the regions main has still to process
  aggreg_plots, \* SpecAggreg: the aggregated plots saved
  aggreg_log, \* SpecAggreg: the records handed to logging
  aggreg_pc, \* SpecAggreg: how far temporal_overlap_aggreg.main has got
  folder_before, \* SpecSiteRename, SpecFixTimestamp, SpecTimezoneShift: the audio folder when the script starts
  folder, \* the audio folder: what is at every name
  listing, \* the names os.listdir returned that the loop has still to visit
  rename_pc, \* how far the script has got
  time_diff, \* SpecTimezoneShift: the hours handed to adjust_timestamps
  mono_country, \* SpecMonotone: the region whose listing is read
  mono_listing, \* SpecMonotone: the region's raw_file_list.csv
  mono_valid, \* SpecMonotone: the valid sets computed for each state of the listing
  mono_pc, \* SpecMonotone: whether the valid sets of the listing have been computed
  shannon_country, \* SpecZeroFill: the region handed to process_country_shannon
  shannon_files, \* SpecZeroFill: the region's listing and agile_outputs folder
  df_sh_coverage, \* SpecZeroFill: what shannon_index.load_raw_file_list returned
  df_sounds, \* SpecZeroFill: what gather_sound_counts returned
  df_shannon, \* SpecZeroFill: what process_country_shannon returned
  shannon_log, \* SpecZeroFill: the records shannon_index.py logged
  shannon_pc, \* SpecZeroFill: where process_country_shannon is
  disk, \* SpecRerun: the files under BASE_DIR, by path
  rerun_todo, \* SpecRerun: the regions the running script has yet to process
  rerun_df, \* SpecRerun: combined_df of combine_counts.main
  rerun_done, \* SpecRerun: how many times each script has been run
  rerun_pc \* SpecRerun: the script that is running, if any

parseVars == <<token, treatment_res, site_res>>
timeVars == <<raw_cell, region, capture, dt_res, date_res, simple_res, hourly_res>>
expVars == <<duty_cycle_arg, expected_res>>
runVars == <<country_arg, raw_file_list, inference_csv, pc, df_raw_combos,
             df_infer_counts, df_merged, log>>
mainVars == <<base_dir, files, countries, combined_df, output_csv, main_pc>>
kernelVars == <<kernel_files, kernel_countries, kernel_out, kernel_log, kernel_pc>>
nightVars == <<night_country, night_files, sun_times, df_total, df_detect, df_night, night_log, night_pc>>
richVars == <<rich_country, rich_files, df_coverage, df_presence, df_rich, rich_log, rich_pc>>
aggregVars == <<aggreg_files, aggreg_countries, aggreg_plots, aggreg_log, aggreg_pc>>
renameVars == <<folder_before, folder, listing, rename_pc>>
shiftVars == <<time_diff>>
monoVars == <<mono_country, mono_listing, mono_valid, mono_pc>>
shannonVars == <<shannon_country, shannon_files, df_sh_coverage, df_sounds, df_shannon, shannon_log, shannon_pc>>
rerunVars == <<disk, rerun_todo, rerun_df, rerun_done, rerun_pc>>
laterVars == <<kernelVars, nightVars, richVars, aggregVars, renameVars, shiftVars, monoVars, shannonVars, rerunVars>>
extVars == <<valid_sets, mainVars, laterVars>>
vars == <<parseVars, timeVars, expVars, runVars, extVars>>

(***************************************************************************)
(* Call results                                                            *)
(***************************************************************************)
NotCalled == [called |-> FALSE]
Ret(v) == [called |-> TRUE, raised |-> FALSE, val |-> v]
Raise(e) == [called |-> TRUE, raised |-> TRUE, exc |-> e]
Returned(r) == r.called /\ ~r.raised

\* F applied to the value of x: x is evaluated once, before F uses it, as Python
\* evaluates the right-hand side of an assignment before the statements that read it
Eval(x, F(_)) == CHOOSE y \in {F(v) : v \in {x}} : TRUE

(***************************************************************************)
(* Python str operations                                                   *)
(***************************************************************************)
\* "x in s" for a one-character x
Contains(s, c) == \E i \in 1..Len(s) : s[i] = c

\* s.find(c) + 1, i.e. the 1-based index of the first c, 0 when absent
Find(s, c) ==
  IF Contains(s, c) THEN CHOOSE i \in 1..Len(s) : s[i] = c /\ \A j \in 1..(i-1) : s[j] # c
  ELSE 0

\* s[a:b] with 0-based, end-exclusive, clamped bounds (a, b >= 0)
Slice(s, a, b) ==
  LET hi == IF b > Len(s) THEN Len(s) ELSE b
  IN  IF a >= hi THEN <<>> ELSE SubSeq(s, a + 1, hi)

\* s.split(c): every occurrence of c separates two fields, empty fields kept
RECURSIVE Split(_, _)
Split(s, c) ==
  LET i == Find(s, c)
  IN  IF i = 0 THEN <<s>>
      ELSE <<SubSeq(s, 1, i - 1)>> \o Split(SubSeq(s, i + 1, Len(s)), c)

UNKNOWN == <<"u", "n", "k", "n", "o", "w", "n">>

(***************************************************************************)
(* Metadata extractor: treatment and site                                  *)
(***************************************************************************)
\* A slip in the length guard and in the letter table
parse_treatment_mut(filename_part) ==
  IF Len(filename_part) <= 4 THEN Ret("unknown")
  ELSE LET char == filename_part[5]
       IN  IF char = "H" THEN Ret("healthy")
           ELSE IF char = "D" THEN Ret("degraded")
           ELSE IF char = "R" THEN Ret("restored")
           ELSE IF char = "N" THEN Ret("restored")
           ELSE Ret("unknown")

\* filename_part[4] is the 5th character: index 5 of the 1-based sequence
parse_treatment(filename_part) ==
  IF Len(filename_part) <= 4 THEN Ret("unknown")
  ELSE LET char == filename_part[5]
       IN  IF char = "H" THEN Ret("healthy")
           ELSE IF char = "D" THEN Ret("degraded")
           ELSE IF char = "R" THEN Ret("restored")
           ELSE IF char = "N" THEN Ret("newly_restored")
           ELSE Ret("unknown")

\* parts[0] taken instead of parts[1]
parse_site_mut(filename_part) ==
  LET parts == Split(filename_part, "_")
  IN  IF Len(parts) > 1 THEN Ret(parts[1]) ELSE Ret(UNKNOWN)

\* parts[1] is the second field: index 2 of the 1-based sequence
parse_site(filename_part) ==
  LET parts == Split(filename_part, "_")
  IN  IF Len(parts) > 1 THEN Ret(parts[2]) ELSE Ret(UNKNOWN)

(***************************************************************************)
(* Region configuration                                                    *)
(***************************************************************************)
COUNTRY_CONFIG ==
  ("australia" :> [offset |-> -10, duty_cycle |-> 4]) @@
  ("kenya"     :> [offset |-> -3,  duty_cycle |-> 4]) @@
  ("indonesia" :> [offset |-> 0,   duty_cycle |-> 2]) @@
  ("maldives"  :> [offset |-> 5,   duty_cycle |-> 4]) @@
  ("mexico"    :> [offset |-> 7,   duty_cycle |-> 4])

COUNTRIES == <<"australia", "kenya", "indonesia", "maldives", "mexico">>

(***************************************************************************)
(* datetime.strptime(dt_str, "%Y%m%d_%H%M%S")                              *)
(*                                                                         *)
(* The format compiles to the regular expression                           *)
(*   (\d\d\d\d)(1[0-2]|0[1-9]|[1-9])(3[01]|[12]\d|0[1-9]|[1-9]| [1-9])_    *)
(*   (2[0-3]|[0-1]\d|\d)([0-5]\d|\d)(6[0-1]|[0-5]\d|\d)                    *)
(* matched at the start of the string with backtracking, alternatives      *)
(* tried left to right; text left over after the match is an error, and so *)
(* are field values no datetime can hold.                                  *)
(***************************************************************************)
Digits == <<"0", "1", "2", "3", "4", "5", "6", "7", "8", "9">>

IsDigit(c) == \E i \in 1..10 : Digits[i] = c

DigitVal(c) == (CHOOSE i \in 1..10 : Digits[i] = c) - 1

\* whether the n characters after position pos (0-based) are all digits
DigitsAt(s, pos, n) ==
  /\ pos + n <= Len(s)
  /\ \A i \in 1..n : IsDigit(s[pos + i])

RECURSIVE NumAt(_, _, _)
NumAt(s, pos, n) ==
  IF n = 0 THEN 0 ELSE NumAt(s, pos, n - 1) * 10 + DigitVal(s[pos + n])

\* the alternatives of field k at position pos, in the order the regex tries them
FieldAlts(s, pos, k) ==
  LET two == IF DigitsAt(s, pos, 2) THEN NumAt(s, pos, 2) ELSE -1
      one == IF DigitsAt(s, pos, 1) THEN NumAt(s, pos, 1) ELSE -1
      alt2(lo, hi) == IF two >= lo /\ two <= hi THEN <<[w |-> 2, v |-> two]>> ELSE <<>>
      alt1(lo) == IF one >= lo THEN <<[w |-> 1, v |-> one]>> ELSE <<>>
      blank == IF /\ pos + 2 <= Len(s)
                  /\ s[pos + 1] = " "
                  /\ IsDigit(s[pos + 2])
                  /\ DigitVal(s[pos + 2]) >= 1
               THEN <<[w |-> 2, v |-> DigitVal(s[pos + 2])]>> ELSE <<>>
  IN  CASE k = 1 -> IF DigitsAt(s, pos, 4) THEN <<[w |-> 4, v |-> NumAt(s, pos, 4)]>> ELSE <<>>
        [] k = 2 -> alt2(1, 12) \o alt1(1)
        [] k = 3 -> alt2(1, 31) \o alt1(1) \o blank
        [] k = 4 -> IF pos + 1 <= Len(s) /\ s[pos + 1] = "_"
                    THEN <<[w |-> 1, v |-> 0]>> ELSE <<>>
        [] k = 5 -> alt2(0, 23) \o alt1(0)
        [] k = 6 -> alt2(0, 59) \o alt1(0)
        [] k = 7 -> alt2(0, 61) \o alt1(0)

RECURSIVE MatchFrom(_, _, _)
RECURSIVE TryAlts(_, _, _, _)
\* the first match of fields k..7 starting at pos
MatchFrom(s, pos, k) ==
  IF k > 7 THEN [ok |-> TRUE, vals |-> <<>>, end |-> pos]
  ELSE TryAlts(s, pos, k, FieldAlts(s, pos, k))

TryAlts(s, pos, k, alts) ==
  IF alts = <<>> THEN [ok |-> FALSE]
  ELSE Eval(MatchFrom(s, pos + Head(alts).w, k + 1), LAMBDA rest :
         IF rest.ok
         THEN [ok |-> TRUE, vals |-> <<Head(alts).v>> \o rest.vals, end |-> rest.end]
         ELSE TryAlts(s, pos, k, Tail(alts)))

IsLeap(year) == year % 4 = 0 /\ (year % 100 # 0 \/ year % 400 = 0)

DAYS_IN_MONTH == <<31, 28, 31, 30, 31, 30, 31, 31, 30, 31, 30, 31>>

DaysInMonth(year, month) ==
  IF month = 2 /\ IsLeap(year) THEN 29 ELSE DAYS_IN_MONTH[month]

MINYEAR == 1

strptime(dt_str) ==
  Eval(MatchFrom(dt_str, 0, 1), LAMBDA m :
    IF ~m.ok THEN Raise("ValueError")
    ELSE IF m.end # Len(dt_str) THEN Raise("ValueError")
    ELSE IF m.vals[1] < MINYEAR THEN Raise("ValueError")
    ELSE IF m.vals[3] > DaysInMonth(m.vals[1], m.vals[2]) THEN Raise("ValueError")
    ELSE IF m.vals[7] > 59 THEN Raise("ValueError")
    ELSE Ret([year |-> m.vals[1], month |-> m.vals[2], day |-> m.vals[3],
              hour |-> m.vals[5], minute |-> m.vals[6], second |-> m.vals[7]]))

(***************************************************************************)
(* datetime + timedelta(hours=offset_hrs): the date as a proleptic         *)
(* Gregorian ordinal, the time as seconds of the day, the sum normalised   *)
(* to 0 <= seconds < 86400 and converted back.                             *)
(***************************************************************************)
DaysBeforeYear(year) ==
  LET y == year - 1 IN y * 365 + (y \div 4) - (y \div 100) + (y \div 400)

RECURSIVE DaysBeforeMonth(_, _)
DaysBeforeMonth(year, month) ==
  IF month = 1 THEN 0
  ELSE DaysBeforeMonth(year, month - 1) + DaysInMonth(year, month - 1)

ymd2ord(year, month, day) ==
  DaysBeforeYear(year) + DaysBeforeMonth(year, month) + day

MAXORDINAL == 3652059

ord2ymd(ordinal) ==
  LET n0 == ordinal - 1
      n400 == n0 \div 146097
      r400 == n0 % 146097
      n100 == r400 \div 36524
      r100 == r400 % 36524
      n4 == r100 \div 1461
      r4 == r100 % 1461
      n1 == r4 \div 365
      n == r4 % 365
      year == n400 * 400 + 1 + n100 * 100 + n4 * 4 + n1
  IN  IF n1 = 4 \/ n100 = 4 THEN [year |-> year - 1, month |-> 12, day |-> 31]
      ELSE LET guess == (n + 50) \div 32
               before == DaysBeforeMonth(year, guess)
               month == IF before > n THEN guess - 1 ELSE guess
           IN  [year |-> year, month |-> month,
                day |-> n - DaysBeforeMonth(year, month) + 1]

\* the offset subtracted instead of added
AddHours_mut(dt, hours) ==
  LET total == dt.hour * 3600 + dt.minute * 60 + dt.second - hours * 3600
      days == ymd2ord(dt.year, dt.month, dt.day) + (total \div 86400)
      secs == total % 86400
  IN  IF days > 0 /\ days <= MAXORDINAL
      THEN LET d == ord2ymd(days)
           IN  Ret([year |-> d.year, month |-> d.month, day |-> d.day,
                    hour |-> secs \div 3600, minute |-> (secs % 3600) \div 60,
                    second |-> secs % 60])
      ELSE Raise("OverflowError")

AddHours(dt, hours) ==
  LET total == dt.hour * 3600 + dt.minute * 60 + dt.second + hours * 3600
      days == ymd2ord(dt.year, dt.month, dt.day) + (total \div 86400)
      secs == total % 86400
  IN  IF days > 0 /\ days <= MAXORDINAL
      THEN LET d == ord2ymd(days)
           IN  Ret([year |-> d.year, month |-> d.month, day |-> d.day,
                    hour |-> secs \div 3600, minute |-> (secs % 3600) \div 60,
                    second |-> secs % 60])
      ELSE Raise("OverflowError")

(***************************************************************************)
(* strftime("%Y%m%d"): two digits for month and day; the C library prints  *)
(* the year as a plain decimal, which has four digits from year 1000 on.   *)
(***************************************************************************)
RECURSIVE Decimal(_)
Decimal(n) ==
  IF n < 10 THEN <<Digits[n + 1]>> ELSE Decimal(n \div 10) \o <<Digits[(n % 10) + 1]>>

TwoDigits(n) == <<Digits[(n \div 10) + 1], Digits[(n % 10) + 1]>>

strftime_Ymd(dt) == Decimal(dt.year) \o TwoDigits(dt.month) \o TwoDigits(dt.day)

(***************************************************************************)
(* Metadata extractor: timestamps and days                                 *)
(***************************************************************************)
\* filename_full.split("/", 1)[-1] if "/" in filename_full else filename_full
StripDir(filename_full) ==
  LET i == Find(filename_full, "/")
  IN  IF i = 0 THEN filename_full ELSE SubSeq(filename_full, i + 1, Len(filename_full))

\* shannon_index.py and phonic_richness_hourly.py: the offset-corrected datetime
parse_filename_datetime(filename_part, country) ==
  Eval(strptime(Slice(filename_part, 7, 7 + 15)), LAMBDA dt_obj :
    IF dt_obj.raised THEN dt_obj
    ELSE IF country \notin DOMAIN COUNTRY_CONFIG THEN Raise("KeyError")
    ELSE AddHours(dt_obj.val, COUNTRY_CONFIG[country].offset))

\* the day of the capture instant, the offset left out
parse_date_mut(filename_part, country) ==
  Eval(strptime(Slice(filename_part, 7, 7 + 15)), LAMBDA dt_obj :
    IF dt_obj.raised THEN dt_obj
    ELSE IF country \notin DOMAIN COUNTRY_CONFIG THEN Raise("KeyError")
    ELSE Ret(strftime_Ymd(dt_obj.val)))

\* combine_counts.py (shannon_index.py composes the same steps)
parse_date(filename_part, country) ==
  Eval(strptime(Slice(filename_part, 7, 7 + 15)), LAMBDA dt_obj :
    IF dt_obj.raised THEN dt_obj
    ELSE IF country \notin DOMAIN COUNTRY_CONFIG THEN Raise("KeyError")
    ELSE Eval(AddHours(dt_obj.val, COUNTRY_CONFIG[country].offset), LAMBDA corrected_dt :
           IF corrected_dt.raised THEN corrected_dt
           ELSE Ret(strftime_Ymd(corrected_dt.val))))

\* settlement_cues.py, load_raw_file_list_simple: the day is the raw slice
simple_date(filename_part) == Ret(Slice(filename_part, 7, 7 + 8))

\* helpers/phonic_richness_hourly.py: parsed, no offset, formatted
hourly_helper_date(filename_part) ==
  Eval(strptime(Slice(filename_part, 7, 7 + 15)), LAMBDA dt_parsed :
    IF dt_parsed.raised THEN dt_parsed ELSE Ret(strftime_Ymd(dt_parsed.val)))

(***************************************************************************)
(* Coverage filter                                                         *)
(*                                                                         *)
(* A DataFrame is a bag of rows: a function from the rows it holds to the  *)
(* number of times it holds them.  A CSV file is a sequence of entries,    *)
(* each standing for `copies` consecutive rows with the same cells.        *)
(***************************************************************************)
\* int(minutes_per_day / duty_cycle) rounded up instead of truncated
get_expected_daily_recordings_mut(duty_cycle) ==
  LET minutes_per_day == 24 * 60
  IN  IF duty_cycle = 0 THEN Raise("ZeroDivisionError")
      ELSE Ret((minutes_per_day + duty_cycle - 1) \div duty_cycle)

\* int(minutes_per_day / duty_cycle): the true quotient, truncated towards zero
\* (the float quotient of 1440 by an integer lies on the same side of every
\* integer as the exact one)
get_expected_daily_recordings(duty_cycle) ==
  LET minutes_per_day == 24 * 60
  IN  IF duty_cycle = 0 THEN Raise("ZeroDivisionError")
      ELSE IF duty_cycle > 0 THEN Ret(minutes_per_day \div duty_cycle)
      ELSE Ret(-(minutes_per_day \div (-duty_cycle)))

\* FILE_COVERAGE = 0.9, as a fraction
FILE_COVERAGE == [num |-> 9, den |-> 10]

\* LOGIT_CUTOFF = 1.0; logits are held in tenths
LOGIT_CUTOFF == 10

EmptyFrame == <<>>

Rows(df) == DOMAIN df

RECURSIVE SumCopies_mut(_, _)
\* repeated rows counted once
SumCopies_mut(seq, r) ==
  IF seq = <<>> THEN 0
  ELSE (IF Head(seq).row = r THEN 1 ELSE 0) + SumCopies_mut(Tail(seq), r)

RECURSIVE SumCopies(_, _)
\* the copies of the entries of seq that carry row r
SumCopies(seq, r) ==
  IF seq = <<>> THEN 0
  ELSE (IF Head(seq).row = r THEN Head(seq).copies ELSE 0) + SumCopies(Tail(seq), r)

\* pd.DataFrame(rows, columns=[...])
FrameOf(seq) ==
  [r \in {seq[i].row : i \in DOMAIN seq} |-> SumCopies(seq, r)]

\* the body of the "for _, row in df.iterrows()" loops
parse_row(filename_full, country) ==
  Eval(StripDir(filename_full), LAMBDA filename_part :
    Eval(parse_date(filename_part, country), LAMBDA date_str :
      IF date_str.raised THEN date_str
      ELSE Ret([country |-> country, site |-> parse_site(filename_part).val,
                date |-> date_str.val, treatment |-> parse_treatment(filename_part).val])))

RECURSIVE parse_rows(_, _)
\* the loop: one parsed row per csv row, or the exception that leaves the loop
parse_rows(rows, country) ==
  IF rows = <<>> THEN Ret(<<>>)
  ELSE Eval(parse_row(Head(rows).filename, country), LAMBDA r :
         IF r.raised THEN r
         ELSE Eval(parse_rows(Tail(rows), country), LAMBDA rest :
                IF rest.raised THEN rest
                ELSE Ret(<<[row |-> r.val, copies |-> Head(rows).copies]>> \o rest.val)))

\* "n_files < coverage_threshold" taken as "<="
is_insufficient_mut(n_files, expected_daily) ==
  n_files * FILE_COVERAGE.den <= FILE_COVERAGE.num * expected_daily

\* df_counts["n_files"] < coverage_threshold, coverage_threshold = FILE_COVERAGE * expected_daily
is_insufficient(n_files, expected_daily) ==
  n_files * FILE_COVERAGE.den < FILE_COVERAGE.num * expected_daily

\* "n_files >= coverage_threshold" taken as ">"
is_sufficient_mut(n_files, expected_daily) ==
  n_files * FILE_COVERAGE.den > FILE_COVERAGE.num * expected_daily

\* df_counts["n_files"] >= coverage_threshold
is_sufficient(n_files, expected_daily) ==
  n_files * FILE_COVERAGE.den >= FILE_COVERAGE.num * expected_daily

RECURSIVE SizeOf(_, _)
\* how many rows of df the distinct rows S stand for
SizeOf(df, S) ==
  IF S = {} THEN 0
  ELSE LET r == CHOOSE x \in S : TRUE IN df[r] + SizeOf(df, S \ {r})

\* df.groupby(["site", "date"]).size(): the rows counted per (site, date)
groupby_site_date(df) ==
  LET keys == {[site |-> r.site, date |-> r.date] : r \in Rows(df)}
  IN  [k \in keys |-> SizeOf(df, {r \in Rows(df) : r.site = k.site /\ r.date = k.date})]

\* lines 134-160 of load_raw_file_list: count, log the insufficient, keep the rest
coverage_filter(country, df_out, df_counts, expected_daily) ==
  LET insufficient == {k \in DOMAIN df_counts : is_insufficient(df_counts[k], expected_daily)}
      kept == {k \in DOMAIN df_counts : is_sufficient(df_counts[k], expected_daily)}
      valid_rows == {r \in Rows(df_out) : [site |-> r.site, date |-> r.date] \in kept}
  IN  Ret([df |-> [r \in valid_rows |-> 1],
           log |-> {[level |-> "info", what |-> "excluding", country |-> country,
                     site |-> k.site, date |-> k.date, n_files |-> df_counts[k],
                     expected |-> expected_daily] : k \in insufficient}])

\* lines 119-139 of load_raw_file_list: the rows parsed, framed and counted
parse_and_filter(country, csv) ==
  Eval(parse_rows(csv.rows, country), LAMBDA rows :
    IF rows.raised THEN rows
    ELSE Eval(FrameOf(rows.val), LAMBDA df_out :
           Eval(groupby_site_date(df_out), LAMBDA df_counts :
             IF country \notin DOMAIN COUNTRY_CONFIG THEN Raise("KeyError")
             ELSE Eval(get_expected_daily_recordings(COUNTRY_CONFIG[country].duty_cycle).val,
                       LAMBDA expected_daily :
                         coverage_filter(country, df_out, df_counts, expected_daily)))))

\* the listing read without asking whether it is there
load_raw_file_list_mut(country, csv) ==
  IF ~csv.exists THEN Raise("FileNotFoundError") ELSE parse_and_filter(country, csv)

\* load_raw_file_list: the combinations that pass coverage, and what it logs
load_raw_file_list(country, csv) ==
  IF ~csv.exists
  THEN Ret([df |-> EmptyFrame,
            log |-> {[level |-> "warning", what |-> "no raw_file_list", country |-> country]}])
  ELSE parse_and_filter(country, csv)

\* df.groupby(["country", "site", "date", "treatment"]).size() times duty_cycle
count_rows(df, duty_cycle) ==
  [r \in {[country |-> x.country, site |-> x.site, date |-> x.date,
           treatment |-> x.treatment, count |-> df[x] * duty_cycle] : x \in Rows(df)} |-> 1]

\* the cutoff taken as exclusive: "> logit_cutoff"
load_inference_counts_mut(country, sound, logit_cutoff, csv) ==
  IF ~csv.exists
  THEN Ret([df |-> EmptyFrame, log |-> {[level |-> "warning", what |-> "no inference csv", country |-> country]}])
  ELSE Eval(parse_rows(SelectSeq(csv.rows, LAMBDA e : e.logit > logit_cutoff), country),
            LAMBDA rows :
              IF rows.raised THEN rows
              ELSE IF country \notin DOMAIN COUNTRY_CONFIG THEN Raise("KeyError")
              ELSE Eval(FrameOf(rows.val), LAMBDA df_temp :
                     Ret([df |-> count_rows(df_temp, COUNTRY_CONFIG[country].duty_cycle),
                          log |-> {}])))

\* load_inference_counts: detections per combination, scaled by the duty cycle
load_inference_counts(country, sound, logit_cutoff, csv) ==
  IF ~csv.exists
  THEN Ret([df |-> EmptyFrame, log |-> {[level |-> "warning", what |-> "no inference csv", country |-> country]}])
  ELSE Eval(parse_rows(SelectSeq(csv.rows, LAMBDA e : e.logit >= logit_cutoff), country),
            LAMBDA rows :
              IF rows.raised THEN rows
              ELSE IF country \notin DOMAIN COUNTRY_CONFIG THEN Raise("KeyError")
              ELSE Eval(FrameOf(rows.val), LAMBDA df_temp :
                     Ret([df |-> count_rows(df_temp, COUNTRY_CONFIG[country].duty_cycle),
                          log |-> {}])))

KeyOf(r) ==
  [country |-> r.country, site |-> r.site, date |-> r.date, treatment |-> r.treatment]

\* how="outer": the combinations of either side
merge_counts_outer(left, right) ==
  LET joined == {[row |-> [country |-> l.country, site |-> l.site, date |-> l.date,
                           treatment |-> l.treatment, count |-> r.count],
                  copies |-> left[l] * right[r]] :
                   <<l, r>> \in {p \in Rows(left) \X Rows(right) : KeyOf(p[2]) = p[1]}}
      alone == {[row |-> [country |-> l.country, site |-> l.site, date |-> l.date,
                          treatment |-> l.treatment, count |-> 0],
                 copies |-> left[l]] :
                  l \in {x \in Rows(left) : \A r \in Rows(right) : KeyOf(r) # x}}
      extra == {[row |-> r, copies |-> right[r]] :
                  r \in {x \in Rows(right) : KeyOf(x) \notin Rows(left)}}
      all == joined \cup alone \cup extra
  IN  [x \in {e.row : e \in all} |-> (CHOOSE e \in all : e.row = x).copies]

\* how="inner": only the combinations with a count
merge_counts_inner(left, right) ==
  LET joined == {[row |-> [country |-> l.country, site |-> l.site, date |-> l.date,
                           treatment |-> l.treatment, count |-> r.count],
                  copies |-> left[l] * right[r]] :
                   <<l, r>> \in {p \in Rows(left) \X Rows(right) : KeyOf(p[2]) = p[1]}}
  IN  [x \in {e.row : e \in joined} |-> (CHOOSE e \in joined : e.row = x).copies]

\* pd.merge(df_raw_combos, df_infer_counts, how="left", on=[the four keys]) and
\* df_merged["count"].fillna(0).astype(int)
merge_counts(left, right) ==
  LET joined == {[row |-> [country |-> l.country, site |-> l.site, date |-> l.date,
                           treatment |-> l.treatment, count |-> r.count],
                  copies |-> left[l] * right[r]] :
                   <<l, r>> \in {p \in Rows(left) \X Rows(right) : KeyOf(p[2]) = p[1]}}
      alone == {[row |-> [country |-> l.country, site |-> l.site, date |-> l.date,
                          treatment |-> l.treatment, count |-> 0],
                 copies |-> left[l]] :
                  l \in {x \in Rows(left) : \A r \in Rows(right) : KeyOf(r) # x}}
      all == joined \cup alone
  IN  [x \in {e.row : e \in all} |-> (CHOOSE e \in all : e.row = x).copies]

SOUND == <<"s", "c", "r", "a", "p", "e">>

\* process_country: the two loads, the merge and the fill, or the exception of a load
\* (log: the records written before the exception left the function; load_raw_file_list
\* has written its records by the time load_inference_counts is called)
process_country(country, sound, logit_cutoff, raw_csv, infer_csv) ==
  Eval(load_raw_file_list(country, raw_csv), LAMBDA raw :
    IF raw.raised THEN [called |-> TRUE, raised |-> TRUE, exc |-> raw.exc, log |-> {}]
    ELSE Eval(load_inference_counts(country, sound, logit_cutoff, infer_csv), LAMBDA inf :
           IF inf.raised
           THEN [called |-> TRUE, raised |-> TRUE, exc |-> inf.exc, log |-> raw.val.log]
           ELSE Ret([df |-> merge_counts(raw.val.df, inf.val.df),
                     log |-> raw.val.log \cup inf.val.log])))

\* "BASE_DIR is None" in place of "not BASE_DIR"
base_dir_missing_mut(value) == ~value.set

\* not BASE_DIR: no value in the environment, or the empty string
base_dir_missing(value) == ~value.set \/ value.val = ""

\* combined_df = df_country in place of the concatenation
concat_mut(df_a, df_b) == df_b

\* pd.concat([df_a, df_b], ignore_index=True), the order of the rows left out
concat(df_a, df_b) ==
  [r \in Rows(df_a) \cup Rows(df_b) |->
     (IF r \in Rows(df_a) THEN df_a[r] ELSE 0) + (IF r \in Rows(df_b) THEN df_b[r] ELSE 0)]

\* the characters of the model in the order of their code points
CodeOrder ==
  <<" ", ".", "/", "0", "1", "2", "3", "4", "5", "6", "7", "8", "9",
    "A", "B", "C", "D", "E", "F", "G", "H", "I", "J", "K", "L", "M",
    "N", "O", "P", "Q", "R", "S", "T", "U", "V", "W", "X", "Y", "Z", "_",
    "a", "b", "c", "d", "e", "f", "g", "h", "i", "j", "k", "l", "m",
    "n", "o", "p", "q", "r", "s", "t", "u", "v", "w", "x", "y", "z">>

CodePoint(c) == CHOOSE i \in DOMAIN CodeOrder : CodeOrder[i] = c

\* the characters of the country and treatment names
Chars ==
  ("australia" :> <<"a", "u", "s", "t", "r", "a", "l", "i", "a">>) @@
  ("kenya" :> <<"k", "e", "n", "y", "a">>) @@
  ("indonesia" :> <<"i", "n", "d", "o", "n", "e", "s", "i", "a">>) @@
  ("maldives" :> <<"m", "a", "l", "d", "i", "v", "e", "s">>) @@
  ("mexico" :> <<"m", "e", "x", "i", "c", "o">>) @@
  ("healthy" :> <<"h", "e", "a", "l", "t", "h", "y">>) @@
  ("degraded" :> <<"d", "e", "g", "r", "a", "d", "e", "d">>) @@
  ("restored" :> <<"r", "e", "s", "t", "o", "r", "e", "d">>) @@
  ("newly_restored" :> <<"n", "e", "w", "l", "y", "_", "r", "e", "s", "t", "o", "r", "e", "d">>) @@
  ("unknown" :> <<"u", "n", "k", "n", "o", "w", "n">>)

RECURSIVE str_lt(_, _)
\* a < b for two str
str_lt(a, b) ==
  IF b = <<>> THEN FALSE
  ELSE IF a = <<>> THEN TRUE
  ELSE IF Head(a) # Head(b) THEN CodePoint(Head(a)) < CodePoint(Head(b))
  ELSE str_lt(Tail(a), Tail(b))

\* the sort key ["country", "treatment", "site", "date"] of a row
SortKey(r) == <<Chars[r.country], Chars[r.treatment], r.site, r.date>>

RECURSIVE key_lt(_, _)
key_lt(k, l) ==
  IF k = <<>> THEN FALSE
  ELSE IF Head(k) # Head(l) THEN str_lt(Head(k), Head(l))
  ELSE key_lt(Tail(k), Tail(l))

RECURSIVE Repeat(_, _)
Repeat(r, n) == IF n = 0 THEN <<>> ELSE <<r>> \o Repeat(r, n - 1)

RECURSIVE sort_values(_)
\* df.sort_values(["country", "treatment", "site", "date"]): rows in key order
sort_values(df) ==
  IF Rows(df) = {} THEN <<>>
  ELSE LET first == CHOOSE r \in Rows(df) :
                      \A q \in Rows(df) : ~key_lt(SortKey(q), SortKey(r))
       IN  Repeat(first, df[first])
             \o sort_values([q \in Rows(df) \ {first} |-> df[q]])

(***************************************************************************)
(* Variables a specification does not use stay at these values             *)
(***************************************************************************)
ParseIdle ==
  /\ token = <<>>
  /\ treatment_res = NotCalled
  /\ site_res = NotCalled

ExpIdle ==
  /\ duty_cycle_arg = 0
  /\ expected_res = NotCalled

RunIdle ==
  /\ country_arg = "none"
  /\ raw_file_list = [exists |-> FALSE]
  /\ inference_csv = [exists |-> FALSE]
  /\ pc = "idle"
  /\ df_raw_combos = EmptyFrame
  /\ df_infer_counts = EmptyFrame
  /\ df_merged = EmptyFrame
  /\ log = {}

MainIdle ==
  /\ base_dir = [set |-> FALSE]
  /\ files = <<>>
  /\ countries = <<>>
  /\ combined_df = <<>>
  /\ output_csv = [written |-> FALSE]
  /\ main_pc = "idle"

KernelIdle ==
  /\ kernel_files = <<>>
  /\ kernel_countries = <<>>
  /\ kernel_out = {}
  /\ kernel_log = {}
  /\ kernel_pc = "idle"

NightIdle ==
  /\ night_country = "none"
  /\ night_files = <<>>
  /\ sun_times = <<>>
  /\ df_total = <<>>
  /\ df_detect = <<>>
  /\ df_night = {}
  /\ night_log = {}
  /\ night_pc = "idle"

RichIdle ==
  /\ rich_country = "none"
  /\ rich_files = <<>>
  /\ df_coverage = {}
  /\ df_presence = <<>>
  /\ df_rich = {}
  /\ rich_log = {}
  /\ rich_pc = "idle"

AggregIdle ==
  /\ aggreg_files = <<>>
  /\ aggreg_countries = <<>>
  /\ aggreg_plots = {}
  /\ aggreg_log = {}
  /\ aggreg_pc = "idle"

RenameIdle ==
  /\ folder_before = <<>>
  /\ folder = <<>>
  /\ listing = {}
  /\ rename_pc = "idle"

ShiftIdle ==
  /\ time_diff = 0

MonoIdle ==
  /\ mono_country = "none"
  /\ mono_listing = <<>>
  /\ mono_valid = <<>>
  /\ mono_pc = "idle"

ShannonIdle ==
  /\ shannon_country = "none"
  /\ shannon_files = <<>>
  /\ df_sh_coverage = EmptyFrame
  /\ df_sounds = {}
  /\ df_shannon = EmptyFrame
  /\ shannon_log = {}
  /\ shannon_pc = "idle"

RerunIdle ==
  /\ disk = <<>>
  /\ rerun_todo = <<>>
  /\ rerun_df = EmptyFrame
  /\ rerun_done = <<>>
  /\ rerun_pc = "none"

LaterIdle ==
  /\ KernelIdle
  /\ NightIdle
  /\ RichIdle
  /\ AggregIdle
  /\ RenameIdle
  /\ ShiftIdle
  /\ MonoIdle
  /\ ShannonIdle
  /\ RerunIdle

ExtIdle ==
  /\ valid_sets = <<>>
  /\ MainIdle
  /\ LaterIdle

TimeIdle ==
  /\ raw_cell = <<>>
  /\ region = "none"
  /\ capture = [year |-> 0]
  /\ dt_res = NotCalled
  /\ date_res = NotCalled
  /\ simple_res = NotCalled
  /\ hourly_res = NotCalled

(***************************************************************************)
(* SpecParse: the two total extractors applied to arbitrary tokens         *)
(***************************************************************************)
MaxTokLen == 5

TokenAlphabet == {"H", "D", "R", "N", "z", "_"}

\* the documented example token of both docstrings
ExampleToken ==
  <<"i","n","d","_","D","2","_","2","0","2","2","0","8","3","0","_",
    "1","3","0","6","0","0",".","W","A","V">>

Tokens ==
  UNION {[1..n -> TokenAlphabet] : n \in 0..MaxTokLen} \cup {ExampleToken}

InitParse ==
  /\ token \in Tokens
  /\ treatment_res = NotCalled
  /\ site_res = NotCalled
  /\ TimeIdle
  /\ ExpIdle
  /\ RunIdle
  /\ ExtIdle

ParseTreatment ==
  /\ ~treatment_res.called
  /\ treatment_res' = parse_treatment(token)
  /\ UNCHANGED <<extVars, token, site_res, timeVars, expVars, runVars>>

ParseSite ==
  /\ ~site_res.called
  /\ site_res' = parse_site(token)
  /\ UNCHANGED <<extVars, token, treatment_res, timeVars, expVars, runVars>>

NextParse == ParseTreatment \/ ParseSite

SpecParse == InitParse /\ [][NextParse]_vars

(***************************************************************************)
(* SpecExpected: the expected number of recordings per day                 *)
(***************************************************************************)
MaxDutyCycle == 1500

InitExpected ==
  /\ ParseIdle
  /\ TimeIdle
  /\ RunIdle
  /\ ExtIdle
  /\ duty_cycle_arg \in 1..MaxDutyCycle
  /\ expected_res = NotCalled

CallExpected ==
  /\ ~expected_res.called
  /\ expected_res' = get_expected_daily_recordings(duty_cycle_arg)
  /\ UNCHANGED <<extVars, parseVars, timeVars, runVars, duty_cycle_arg>>

NextExpected == CallExpected

SpecExpected == InitExpected /\ [][NextExpected]_vars

(***************************************************************************)
(* Claims on the treatment and site extractors (SpecParse)                 *)
(***************************************************************************)
Treatments == {"healthy", "degraded", "restored", "newly_restored", "unknown"}

\* the letter table of the specification, as a relation
TreatmentLetter(c, t) ==
  \/ c = "H" /\ t = "healthy"
  \/ c = "D" /\ t = "degraded"
  \/ c = "R" /\ t = "restored"
  \/ c = "N" /\ t = "newly_restored"
  \/ c \notin {"H", "D", "R", "N"} /\ t = "unknown"

\* C1: for every token, of any length, parse_treatment returns (never raises) one
\* of the five treatments: the letter at 0-based index 4 decides (H, D, R, N),
\* any other letter and any token shorter than 5 characters give unknown.
C1_TreatmentTotal ==
  treatment_res.called =>
    /\ ~treatment_res.raised
    /\ treatment_res.val \in Treatments
    /\ Len(token) < 5 => treatment_res.val = "unknown"
    /\ Len(token) >= 5 => TreatmentLetter(token[5], treatment_res.val)

C1_Witness ==
  /\ treatment_res.called
  /\ Len(token) = 5
  /\ token[5] = "N"
  /\ treatment_res = Ret("newly_restored")

\* the field that follows the first "_" and ends before the next "_" (or at the end)
SecondField(s, v) ==
  \E i \in 1..Len(s) :
    /\ s[i] = "_"
    /\ \A k \in 1..(i - 1) : s[k] # "_"
    /\ \E j \in (i + 1)..(Len(s) + 1) :
         /\ j = Len(s) + 1 \/ s[j] = "_"
         /\ \A k \in (i + 1)..(j - 1) : s[k] # "_"
         /\ v = SubSeq(s, i + 1, j - 1)

\* C2: for every token parse_site returns (never raises) the second "_"-separated
\* field when there are at least two fields and "unknown" when the token holds no
\* "_"; "ind_D2_20220830_130600.WAV" gives "D2".
C2_SiteSecondField ==
  site_res.called =>
    /\ ~site_res.raised
    /\ ~Contains(token, "_") => site_res.val = UNKNOWN
    /\ Contains(token, "_") => SecondField(token, site_res.val)
    /\ token = ExampleToken => site_res.val = <<"D", "2">>

C2_Witness ==
  /\ token = ExampleToken
  /\ site_res = Ret(<<"D", "2">>)

(***************************************************************************)
(* SpecTime: the day and timestamp extractors applied to one listing cell  *)
(***************************************************************************)
CountryCode ==
  ("australia" :> <<"a", "u", "s">>) @@ ("kenya" :> <<"k", "e", "n">>) @@
  ("indonesia" :> <<"i", "n", "d">>) @@ ("maldives" :> <<"m", "a", "l">>) @@
  ("mexico" :> <<"m", "e", "x">>)

\* YYYYMMDD_HHMMSS as the recorder writes it
EncodeInstant(c) ==
  Decimal(c.year) \o TwoDigits(c.month) \o TwoDigits(c.day) \o <<"_">> \o
  TwoDigits(c.hour) \o TwoDigits(c.minute) \o TwoDigits(c.second)

\* <dir><code>_<site>_<YYYYMMDD_HHMMSS>.WAV
MkFilename(dir, code, site, c) ==
  dir \o code \o <<"_">> \o site \o <<"_">> \o EncodeInstant(c) \o <<".", "W", "A", "V">>

CaptureDays ==
  {<<2022, 8, 30>>, <<2022, 12, 31>>, <<2023, 1, 1>>, <<2023, 2, 28>>, <<2023, 3, 1>>,
   <<2023, 12, 31>>, <<2024, 1, 1>>, <<2024, 2, 28>>, <<2024, 2, 29>>, <<2024, 3, 1>>}

CaptureTimes ==
  {<<0, 0, 0>>, <<2, 59, 59>>, <<3, 0, 0>>, <<9, 59, 59>>, <<10, 0, 0>>, <<13, 6, 0>>,
   <<16, 59, 59>>, <<17, 0, 0>>, <<18, 59, 59>>, <<19, 0, 0>>, <<20, 0, 0>>, <<23, 59, 59>>}

Captures ==
  {[year |-> d[1], month |-> d[2], day |-> d[3],
    hour |-> t[1], minute |-> t[2], second |-> t[3]] : d \in CaptureDays, t \in CaptureTimes}

ListingDirs == {<<>>, <<"r", "a", "w", "/">>}

InitTime ==
  /\ ParseIdle
  /\ ExpIdle
  /\ RunIdle
  /\ ExtIdle
  /\ region \in DOMAIN COUNTRY_CONFIG
  /\ capture \in Captures
  /\ \E dir \in ListingDirs :
       raw_cell = MkFilename(dir, CountryCode[region], <<"D", "2">>, capture)
  /\ dt_res = NotCalled
  /\ date_res = NotCalled
  /\ simple_res = NotCalled
  /\ hourly_res = NotCalled

CallParseFilenameDatetime ==
  /\ ~dt_res.called
  /\ dt_res' = parse_filename_datetime(StripDir(raw_cell), region)
  /\ UNCHANGED <<extVars, expVars, runVars, parseVars, raw_cell, region, capture, date_res, simple_res, hourly_res>>

CallParseDate ==
  /\ ~date_res.called
  /\ date_res' = parse_date(StripDir(raw_cell), region)
  /\ UNCHANGED <<extVars, expVars, runVars, parseVars, raw_cell, region, capture, dt_res, simple_res, hourly_res>>

CallSimpleDate ==
  /\ ~simple_res.called
  /\ simple_res' = simple_date(StripDir(raw_cell))
  /\ UNCHANGED <<extVars, expVars, runVars, parseVars, raw_cell, region, capture, dt_res, date_res, hourly_res>>

CallHourlyHelperDate ==
  /\ ~hourly_res.called
  /\ hourly_res' = hourly_helper_date(StripDir(raw_cell))
  /\ UNCHANGED <<extVars, expVars, runVars, parseVars, raw_cell, region, capture, dt_res, date_res, simple_res>>

NextTime ==
  \/ CallParseFilenameDatetime
  \/ CallParseDate
  \/ CallSimpleDate
  \/ CallHourlyHelperDate

SpecTime == InitTime /\ [][NextTime]_vars

(***************************************************************************)
(* Claims on timestamps and days (SpecTime)                                *)
(***************************************************************************)
\* the civil calendar, stated without ordinals
CalLeap(y) == (y % 4 = 0 /\ y % 100 # 0) \/ y % 400 = 0

CalMonthLength(y, m) ==
  IF m \in {4, 6, 9, 11} THEN 30
  ELSE IF m = 2 THEN (IF CalLeap(y) THEN 29 ELSE 28)
  ELSE 31

CalNextDay(d) ==
  IF d.day < CalMonthLength(d.year, d.month) THEN [d EXCEPT !.day = d.day + 1]
  ELSE IF d.month < 12 THEN [d EXCEPT !.month = d.month + 1, !.day = 1]
  ELSE [d EXCEPT !.year = d.year + 1, !.month = 1, !.day = 1]

CalPrevDay(d) ==
  IF d.day > 1 THEN [d EXCEPT !.day = d.day - 1]
  ELSE IF d.month > 1
       THEN [d EXCEPT !.month = d.month - 1, !.day = CalMonthLength(d.year, d.month - 1)]
  ELSE [d EXCEPT !.year = d.year - 1, !.month = 12, !.day = 31]

\* the instant c moved by a whole number of hours, -24 < hours < 24
CalShift(c, hours) ==
  LET h == c.hour + hours
  IN  IF h >= 24 THEN [CalNextDay(c) EXCEPT !.hour = h - 24]
      ELSE IF h < 0 THEN [CalPrevDay(c) EXCEPT !.hour = h + 24]
      ELSE [c EXCEPT !.hour = h]

Instant(y, mo, d, h, mi, s) ==
  [year |-> y, month |-> mo, day |-> d, hour |-> h, minute |-> mi, second |-> s]

\* the 8 characters of v read as year, month, day
ReadsAsDay(v, c) ==
  /\ Len(v) = 8
  /\ \A i \in 1..8 : IsDigit(v[i])
  /\ NumAt(v, 0, 4) = c.year
  /\ NumAt(v, 4, 2) = c.month
  /\ NumAt(v, 6, 2) = c.day

\* C3: for every well-formed name and configured region the corrected timestamp is
\* the encoded capture instant plus the region's fixed signed hour offset:
\* 20220830_130600 gives 2022-08-30 18:06:00 at +5 and 2022-08-30 03:06:00 at -10.
C3_CorrectedTimestamp ==
  dt_res.called =>
    /\ ~dt_res.raised
    /\ dt_res.val = CalShift(capture, COUNTRY_CONFIG[region].offset)
    /\ (capture = Instant(2022, 8, 30, 13, 6, 0) /\ region = "maldives")
         => dt_res.val = Instant(2022, 8, 30, 18, 6, 0)
    /\ (capture = Instant(2022, 8, 30, 13, 6, 0) /\ region = "australia")
         => dt_res.val = Instant(2022, 8, 30, 3, 6, 0)

C3_Witness ==
  /\ capture = Instant(2022, 8, 30, 13, 6, 0)
  /\ region = "australia"
  /\ Contains(raw_cell, "/")
  /\ dt_res = Ret(Instant(2022, 8, 30, 3, 6, 0))

\* C4: parse_date returns the calendar day of the offset-corrected timestamp, not of
\* the capture instant: when the offset crosses midnight the day is the previous
\* or next calendar day, across month and year boundaries too.
C4_DayOfCorrected ==
  date_res.called =>
    /\ ~date_res.raised
    /\ ReadsAsDay(date_res.val, CalShift(capture, COUNTRY_CONFIG[region].offset))
    /\ (capture = Instant(2023, 1, 1, 3, 0, 0) /\ region = "australia")
         => date_res.val = <<"2", "0", "2", "2", "1", "2", "3", "1">>
    /\ (capture = Instant(2024, 2, 28, 20, 0, 0) /\ region = "maldives")
         => date_res.val = <<"2", "0", "2", "4", "0", "2", "2", "9">>

C4_Witness ==
  /\ capture = Instant(2023, 1, 1, 3, 0, 0)
  /\ region = "australia"
  /\ date_res = Ret(<<"2", "0", "2", "2", "1", "2", "3", "1">>)

\* C5: in every script that makes a coverage check, the day that groups a recording
\* is the day the offset-applying parse_date returns for its filename.
C5_SameDayEverywhere ==
  (date_res.called /\ simple_res.called /\ hourly_res.called) =>
    /\ simple_res = date_res
    /\ hourly_res = date_res

(***************************************************************************)
(* Spec: process_country(country, SOUND, LOGIT_CUTOFF) of combine_counts   *)
(* on one region's listing and inference table                             *)
(***************************************************************************)
\* the recordings the files are made of: where and when each was captured
Recordings ==
  <<[dir |-> <<>>, site |-> <<"D", "2">>, treatment |-> "degraded",
     capture |-> [year |-> 2023, month |-> 1, day |-> 1, hour |-> 3, minute |-> 0, second |-> 0]],
    [dir |-> <<"r", "a", "w", "/">>, site |-> <<"D", "2">>, treatment |-> "degraded",
     capture |-> [year |-> 2023, month |-> 1, day |-> 1, hour |-> 20, minute |-> 0, second |-> 0]],
    [dir |-> <<>>, site |-> <<"H", "1">>, treatment |-> "healthy",
     capture |-> [year |-> 2023, month |-> 1, day |-> 1, hour |-> 12, minute |-> 0, second |-> 0]],
    [dir |-> <<>>, site |-> <<"R", "3">>, treatment |-> "restored",
     capture |-> [year |-> 2023, month |-> 1, day |-> 1, hour |-> 12, minute |-> 0, second |-> 0]]>>

NameOf(c, rec) == MkFilename(rec.dir, CountryCode[c], rec.site, rec.capture)

\* the listing holds the first three recordings, the inference table all four
ListedRecordings == 1..3

\* the logit, in tenths, of the inference rows of each recording
InferLogit == <<10, 9, 20, 15>>

SmallCount == 5
MaxInferCopies == 2

\* rows per recording in a listing: none, a few, one short of 90%, exactly 90%
ListingCopies(c) ==
  IF c = "indonesia" THEN {0, SmallCount, 647, 648} ELSE {0, SmallCount, 323, 324}

Listings(c) ==
  {[exists |-> FALSE]} \cup
  {[exists |-> TRUE,
    rows |-> SelectSeq([i \in ListedRecordings |->
                          [filename |-> NameOf(c, Recordings[i]), copies |-> ks[i]]],
                       LAMBDA e : e.copies > 0)] :
     ks \in [ListedRecordings -> ListingCopies(c)]}

InferenceTables(c) ==
  {[exists |-> FALSE]} \cup
  {[exists |-> TRUE,
    rows |-> SelectSeq([i \in DOMAIN Recordings |->
                          [filename |-> NameOf(c, Recordings[i]), logit |-> InferLogit[i],
                           copies |-> ks[i]]],
                       LAMBDA e : e.copies > 0)] :
     ks \in [DOMAIN Recordings -> {0, MaxInferCopies}]}

Init ==
  /\ ParseIdle
  /\ TimeIdle
  /\ ExpIdle
  /\ ExtIdle
  /\ country_arg \in DOMAIN COUNTRY_CONFIG
  /\ raw_file_list \in Listings(country_arg)
  /\ inference_csv \in InferenceTables(country_arg)
  /\ pc = "start"
  /\ df_raw_combos = EmptyFrame
  /\ df_infer_counts = EmptyFrame
  /\ df_merged = EmptyFrame
  /\ log = {}

\* df_raw_combos = load_raw_file_list(country)
LoadRawFileList ==
  /\ pc = "start"
  /\ \E r \in {load_raw_file_list(country_arg, raw_file_list)} :
         IF r.raised
         THEN /\ pc' = "raised"
              /\ UNCHANGED <<df_raw_combos, log>>
         ELSE /\ pc' = "raw_loaded"
              /\ df_raw_combos' = r.val.df
              /\ log' = log \cup r.val.log
  /\ UNCHANGED <<extVars, parseVars, timeVars, expVars, country_arg, raw_file_list, inference_csv,
                 df_infer_counts, df_merged>>

\* df_infer_counts = load_inference_counts(country, sound, logit_cutoff)
LoadInferenceCounts ==
  /\ pc = "raw_loaded"
  /\ \E r \in {load_inference_counts(country_arg, SOUND, LOGIT_CUTOFF, inference_csv)} :
         IF r.raised
         THEN /\ pc' = "raised"
              /\ UNCHANGED <<df_infer_counts, log>>
         ELSE /\ pc' = "infer_loaded"
              /\ df_infer_counts' = r.val.df
              /\ log' = log \cup r.val.log
  /\ UNCHANGED <<extVars, parseVars, timeVars, expVars, country_arg, raw_file_list, inference_csv,
                 df_raw_combos, df_merged>>

\* the merge, the fill and the return
MergeCounts ==
  /\ pc = "infer_loaded"
  /\ df_merged' = merge_counts(df_raw_combos, df_infer_counts)
  /\ pc' = "returned"
  /\ UNCHANGED <<extVars, parseVars, timeVars, expVars, country_arg, raw_file_list, inference_csv,
                 df_raw_combos, df_infer_counts, log>>

Next == LoadRawFileList \/ LoadInferenceCounts \/ MergeCounts

Spec == Init /\ [][Next]_vars

(***************************************************************************)
(* Claim on the expected daily count (SpecExpected)                        *)
(***************************************************************************)
\* C6: for every positive integer duty cycle the expected number of recordings per
\* day is floor(1440 / duty_cycle), truncated and never rounded up: 4 gives 360,
\* 2 gives 720 and 7, which does not divide 1440, gives 205.
C6_ExpectedIsFloor ==
  expected_res.called =>
    /\ ~expected_res.raised
    /\ expected_res.val * duty_cycle_arg <= 1440
    /\ 1440 < (expected_res.val + 1) * duty_cycle_arg
    /\ duty_cycle_arg = 4 => expected_res.val = 360
    /\ duty_cycle_arg = 2 => expected_res.val = 720
    /\ duty_cycle_arg = 7 => expected_res.val = 205

C6_Witness ==
  /\ duty_cycle_arg = 7
  /\ expected_res = Ret(205)

(***************************************************************************)
(* Claims on the coverage filter and the merged table (Spec), stated on    *)
(* the recordings the files were made of                                   *)
(***************************************************************************)
RECURSIVE CopiesOf(_, _)
\* how many rows of a csv carry the filename name
CopiesOf(rows, name) ==
  IF rows = <<>> THEN 0
  ELSE (IF Head(rows).filename = name THEN Head(rows).copies ELSE 0)
         + CopiesOf(Tail(rows), name)

\* rows of the listing made of recording i
Listed(i) ==
  IF raw_file_list.exists /\ i \in ListedRecordings
  THEN CopiesOf(raw_file_list.rows, NameOf(country_arg, Recordings[i]))
  ELSE 0

\* recording i has an inference row at or above the cutoff of 1.0
Detected(i) ==
  /\ inference_csv.exists
  /\ InferLogit[i] >= 10
  /\ CopiesOf(inference_csv.rows, NameOf(country_arg, Recordings[i])) > 0

\* the site and local day of recording i
TrueGroup(i) ==
  LET local == CalShift(Recordings[i].capture, COUNTRY_CONFIG[country_arg].offset)
  IN  [site |-> Recordings[i].site,
       day |-> [year |-> local.year, month |-> local.month, day |-> local.day]]

ListedGroups == {TrueGroup(i) : i \in {j \in ListedRecordings : Listed(j) > 0}}

RECURSIVE ObservedIn(_, _)
ObservedIn(S, g) ==
  IF S = {} THEN 0
  ELSE LET i == CHOOSE x \in S : TRUE
       IN  (IF TrueGroup(i) = g THEN Listed(i) ELSE 0) + ObservedIn(S \ {i}, g)

\* the listing's record count of the group g
Observed(g) == ObservedIn(ListedRecordings, g)

\* floor(1440 / duty cycle) of the region
ExpectedPerDay ==
  LET d == COUNTRY_CONFIG[country_arg].duty_cycle
  IN  CHOOSE e \in 0..1440 : e * d <= 1440 /\ 1440 < (e + 1) * d

\* observed >= 0.9 * expected
Covered(g) == 10 * Observed(g) >= 9 * ExpectedPerDay

IsRowOf(r, g) == r.site = g.site /\ ReadsAsDay(r.date, g.day)

InValidSet(g) == \E r \in Rows(df_raw_combos) : IsRowOf(r, g)

ExclusionLog == {e \in log : e.what = "excluding"}

Logged(g) == \E e \in ExclusionLog : IsRowOf(e, g)

RawLoaded == pc \in {"raw_loaded", "infer_loaded", "returned"}

\* C7: a (site, day) group of the listing is in the valid set if and only if its
\* record count is at least 0.9 times the expected daily count, the bound included:
\* at duty cycle 4 a group of exactly 324 recordings is valid, one of 323 is not.
C7_ValidIffThreshold ==
  RawLoaded =>
    \A g \in ListedGroups :
      /\ InValidSet(g) <=> Covered(g)
      /\ (COUNTRY_CONFIG[country_arg].duty_cycle = 4 /\ Observed(g) = 324) => InValidSet(g)
      /\ (COUNTRY_CONFIG[country_arg].duty_cycle = 4 /\ Observed(g) = 323) => ~InValidSet(g)

C7_Witness ==
  /\ pc = "raw_loaded"
  /\ country_arg = "australia"
  /\ \E g \in ListedGroups : Observed(g) = 324 /\ InValidSet(g)
  /\ \E g \in ListedGroups : Observed(g) = 323 /\ ~InValidSet(g)

\* C8: every (site, day) group of the listing is either kept as valid or reported in
\* the exclusion log, never both and never neither; each log entry carries the
\* observed count of its group and the region's expected count (5 recordings of site
\* D2 at duty cycle 2 are logged with observed 5, expected 720), and the run is not
\* aborted.
C8_KeptOrLogged ==
  /\ pc # "raised"
  /\ RawLoaded =>
       /\ \A g \in ListedGroups : InValidSet(g) <=> ~Logged(g)
       /\ \A e \in ExclusionLog :
            \E g \in ListedGroups :
              /\ IsRowOf(e, g)
              /\ e.country = country_arg
              /\ e.n_files = Observed(g)
              /\ e.expected = ExpectedPerDay
       /\ \A g \in ListedGroups :
            Cardinality({e \in ExclusionLog : IsRowOf(e, g)}) <= 1
       /\ \A g \in ListedGroups :
            (country_arg = "indonesia" /\ g.site = <<"D", "2">> /\ Observed(g) = 5)
              => \E e \in ExclusionLog :
                   IsRowOf(e, g) /\ e.n_files = 5 /\ e.expected = 720

C8_Witness ==
  /\ pc = "raw_loaded"
  /\ country_arg = "indonesia"
  /\ \E g \in ListedGroups :
       /\ g.site = <<"D", "2">>
       /\ Observed(g) = 5
       /\ ~InValidSet(g)
       /\ \E e \in ExclusionLog : IsRowOf(e, g) /\ e.n_files = 5 /\ e.expected = 720
  /\ \E g \in ListedGroups : InValidSet(g) /\ ~Logged(g)

\* the recordings with a detection whose site-day is not listed or failed coverage
DetectedOutsideValid ==
  {i \in DOMAIN Recordings :
     Detected(i) /\ ~(TrueGroup(i) \in ListedGroups /\ Covered(TrueGroup(i)))}

\* C9: every row of process_country's result has a (site, day) that passed coverage,
\* and a detection on a site-day that failed coverage appears nowhere in the result,
\* neither as a count nor as a zero-filled row.
C9_OnlyValidInOutput ==
  pc = "returned" =>
    /\ \A r \in Rows(df_merged) :
         \E g \in ListedGroups : IsRowOf(r, g) /\ Covered(g)
    /\ \A i \in DetectedOutsideValid :
         \A r \in Rows(df_merged) : ~IsRowOf(r, TrueGroup(i))

C9_Witness ==
  /\ pc = "returned"
  /\ Rows(df_merged) # {}
  /\ \E i \in DetectedOutsideValid : TrueGroup(i) \in ListedGroups
  /\ \E i \in DetectedOutsideValid : TrueGroup(i) \notin ListedGroups
  /\ \A i \in DetectedOutsideValid :
       \A r \in Rows(df_merged) : ~IsRowOf(r, TrueGroup(i))

\* the listed recordings of a covered group, each standing for one
\* (country, site, day, treatment) combination
ValidListed == {i \in ListedRecordings : Listed(i) > 0 /\ Covered(TrueGroup(i))}

RowsOfCombination(i) ==
  {r \in Rows(df_merged) :
     /\ r.country = country_arg
     /\ IsRowOf(r, TrueGroup(i))
     /\ r.treatment = Recordings[i].treatment}

\* some recording of the combination of i has a detection
CombinationDetected(i) ==
  \E j \in DOMAIN Recordings :
    /\ Detected(j)
    /\ TrueGroup(j) = TrueGroup(i)
    /\ Recordings[j].treatment = Recordings[i].treatment

(***************************************************************************)
(* Claim on repeated listing rows (Spec)                                   *)
(***************************************************************************)
\* the listed filenames of the group g, each counted once
DistinctNames(g) ==
  Cardinality({i \in ListedRecordings : Listed(i) > 0 /\ TrueGroup(i) = g})

\* the rows of the returned table that stand for the combination of recording i
CombosOf(i) ==
  {r \in Rows(df_raw_combos) :
     /\ r.country = country_arg
     /\ IsRowOf(r, TrueGroup(i))
     /\ r.treatment = Recordings[i].treatment}

\* C12: a filename listed k times adds k to the count of its (site, day) group, the
\* count being taken before any de-duplication: a group whose distinct filenames
\* are below the threshold but whose rows reach it is valid, an excluded group is
\* logged with its row count, and the returned table holds each combination once.
C12_RepeatedRowsCount ==
  RawLoaded =>
    /\ \A g \in ListedGroups :
         (10 * DistinctNames(g) < 9 * ExpectedPerDay /\ 10 * Observed(g) >= 9 * ExpectedPerDay)
           => InValidSet(g)
    /\ \A g \in ListedGroups :
         \A e \in ExclusionLog : IsRowOf(e, g) => e.n_files = Observed(g)
    /\ \A r \in Rows(df_raw_combos) : df_raw_combos[r] = 1
    /\ \A i \in ValidListed : Cardinality(CombosOf(i)) = 1

C12_Witness ==
  /\ pc = "raw_loaded"
  /\ \E i \in ValidListed :
       /\ DistinctNames(TrueGroup(i)) = 1
       /\ Listed(i) > 1
       /\ Cardinality(CombosOf(i)) = 1
       /\ \A r \in CombosOf(i) : df_raw_combos[r] = 1
  /\ \E g \in ListedGroups :
       \E e \in ExclusionLog : IsRowOf(e, g) /\ e.n_files = Observed(g) /\ e.n_files > DistinctNames(g)

(***************************************************************************)
(* SpecMalformed: the day and timestamp extractors on names whose          *)
(* characters 7..21 are not a YYYYMMDD_HHMMSS stamp                        *)
(***************************************************************************)
\* ind_D2_garbage_1234567.WAV, ind_D2_20220830-130600.WAV, ind_D2_202211 5_130600.WAV,
\* ind_D2_20221305_130600.WAV, ind_D2_20220230_130600.WAV, ind_D2_20220830_13060,
\* ind_D2_2022.WAV, D2_20220830_130600.WAV
MalformedNames ==
  {<<"i", "n", "d", "_", "D", "2", "_", "g", "a", "r", "b", "a", "g", "e", "_", "1", "2", "3", "4", "5", "6", "7", ".", "W", "A", "V">>,
   <<"i", "n", "d", "_", "D", "2", "_", "2", "0", "2", "2", "0", "8", "3", "0", "-", "1", "3", "0", "6", "0", "0", ".", "W", "A", "V">>,
   <<"i", "n", "d", "_", "D", "2", "_", "2", "0", "2", "2", "1", "1", " ", "5", "_", "1", "3", "0", "6", "0", "0", ".", "W", "A", "V">>,
   <<"i", "n", "d", "_", "D", "2", "_", "2", "0", "2", "2", "1", "3", "0", "5", "_", "1", "3", "0", "6", "0", "0", ".", "W", "A", "V">>,
   <<"i", "n", "d", "_", "D", "2", "_", "2", "0", "2", "2", "0", "2", "3", "0", "_", "1", "3", "0", "6", "0", "0", ".", "W", "A", "V">>,
   <<"i", "n", "d", "_", "D", "2", "_", "2", "0", "2", "2", "0", "8", "3", "0", "_", "1", "3", "0", "6", "0">>,
   <<"i", "n", "d", "_", "D", "2", "_", "2", "0", "2", "2", ".", "W", "A", "V">>,
   <<"D", "2", "_", "2", "0", "2", "2", "0", "8", "3", "0", "_", "1", "3", "0", "6", "0", "0", ".", "W", "A", "V">>}

InitMalformed ==
  /\ ParseIdle
  /\ ExpIdle
  /\ RunIdle
  /\ ExtIdle
  /\ \E dir \in ListingDirs, name \in MalformedNames : raw_cell = dir \o name
  /\ region \in DOMAIN COUNTRY_CONFIG
  /\ capture = [year |-> 0]
  /\ dt_res = NotCalled
  /\ date_res = NotCalled
  /\ simple_res = NotCalled
  /\ hourly_res = NotCalled

SpecMalformed == InitMalformed /\ [][NextTime]_vars

\* s is a YYYYMMDD_HHMMSS stamp: 15 characters, digits around one "_", naming a
\* day of the calendar and a time of the day
IsStamp(s) ==
  /\ Len(s) = 15
  /\ \A i \in (1..8) \cup (10..15) : IsDigit(s[i])
  /\ s[9] = "_"
  /\ NumAt(s, 0, 4) >= 1
  /\ NumAt(s, 4, 2) \in 1..12
  /\ NumAt(s, 6, 2) \in 1..CalMonthLength(NumAt(s, 0, 4), NumAt(s, 4, 2))
  /\ NumAt(s, 9, 2) <= 23
  /\ NumAt(s, 11, 2) <= 59
  /\ NumAt(s, 13, 2) <= 59

\* characters 7..21 of the name that follows the directory prefix of a cell
StampSlice(cell) ==
  LET k == Find(cell, "/")
      name == IF k = 0 THEN cell ELSE SubSeq(cell, k + 1, Len(cell))
  IN  SubSeq(name, 8, IF Len(name) < 22 THEN Len(name) ELSE 22)

\* C13: when characters 7..21 of a filename are not a YYYYMMDD_HHMMSS stamp, every
\* extraction of its day or timestamp fails with an error; none returns a value.
C13_MalformedFails ==
  ~IsStamp(StampSlice(raw_cell)) =>
    /\ dt_res.called => dt_res.raised
    /\ date_res.called => date_res.raised
    /\ simple_res.called => simple_res.raised
    /\ hourly_res.called => hourly_res.raised

(***************************************************************************)
(* SpecBadRow: process_country on files that may hold one row whose name   *)
(* is off the fixed-width contract                                         *)
(***************************************************************************)
\* ind_D2_garbage_1234567.WAV
BadRowName ==
  <<"i", "n", "d", "_", "D", "2", "_", "g", "a", "r", "b", "a", "g", "e", "_",
    "1", "2", "3", "4", "5", "6", "7", ".", "W", "A", "V">>

\* the logit, in tenths, the bad row of an inference table may carry
BadRowLogits == {5, 20}

\* csv rows with the entry put first, put last, or left out
WithEntry(rows, e) == {rows, <<e>> \o rows, rows \o <<e>>}

FullDayCopies(c) == IF c = "indonesia" THEN {0, 648} ELSE {0, 324}

BadRowListings(c) ==
  UNION {{[exists |-> TRUE, rows |-> rs] :
            rs \in WithEntry(SelectSeq([i \in ListedRecordings |->
                                          [filename |-> NameOf(c, Recordings[i]),
                                           copies |-> ks[i]]],
                                       LAMBDA e : e.copies > 0),
                             [filename |-> BadRowName, copies |-> 1])} :
         ks \in [ListedRecordings -> FullDayCopies(c)]}

BadRowInferenceTables(c) ==
  UNION {{[exists |-> TRUE, rows |-> rs] :
            rs \in WithEntry(SelectSeq([i \in DOMAIN Recordings |->
                                          [filename |-> NameOf(c, Recordings[i]),
                                           logit |-> InferLogit[i], copies |-> ks[i]]],
                                       LAMBDA e : e.copies > 0),
                             [filename |-> BadRowName, logit |-> l, copies |-> 1])} :
         ks \in [DOMAIN Recordings -> {0, MaxInferCopies}], l \in BadRowLogits}

InitBadRow ==
  /\ ParseIdle
  /\ TimeIdle
  /\ ExpIdle
  /\ ExtIdle
  /\ country_arg \in DOMAIN COUNTRY_CONFIG
  /\ raw_file_list \in BadRowListings(country_arg)
  /\ inference_csv \in BadRowInferenceTables(country_arg)
  /\ pc = "start"
  /\ df_raw_combos = EmptyFrame
  /\ df_infer_counts = EmptyFrame
  /\ df_merged = EmptyFrame
  /\ log = {}

SpecBadRow == InitBadRow /\ [][Next]_vars

\* the rows process_country has to parse whose name is the bad one
BadRowsRead ==
  Cardinality({i \in DOMAIN raw_file_list.rows : raw_file_list.rows[i].filename = BadRowName})
  + Cardinality({i \in DOMAIN inference_csv.rows :
                   /\ inference_csv.rows[i].filename = BadRowName
                   /\ inference_csv.rows[i].logit >= 10})

\* C14: a malformed filename in a region's listing or inference table does not abort
\* the run: the record is skipped, the other records of the region are processed,
\* and the number of skipped records is reported.
C14_MalformedSkipped ==
  /\ pc # "raised"
  /\ (pc = "returned" /\ BadRowsRead > 0) =>
       /\ \E e \in log : e.what = "skipped" /\ e.count = BadRowsRead
       /\ \A i \in ValidListed : Cardinality(RowsOfCombination(i)) = 1

(***************************************************************************)
(* SpecMain: combine_counts.py run as a script: the module-level BASE_DIR  *)
(* check, main's loop over the regions, the sort and the save              *)
(***************************************************************************)
BaseDirs ==
  {[set |-> FALSE], [set |-> TRUE, val |-> ""], [set |-> TRUE, val |-> "/data"]}

\* the order of COUNTRIES, its reverse and one more
Orders ==
  {COUNTRIES,
   <<"mexico", "maldives", "indonesia", "kenya", "australia">>,
   <<"indonesia", "mexico", "australia", "maldives", "kenya">>}

\* a listing with a full day of recording 3 and a few rows of recording 1
FullListing(c) ==
  [exists |-> TRUE,
   rows |-> <<[filename |-> NameOf(c, Recordings[3]),
               copies |-> IF c = "indonesia" THEN 648 ELSE 324],
              [filename |-> NameOf(c, Recordings[1]), copies |-> SmallCount]>>]

\* an inference table with detections on recordings 3 and 4
SomeInference(c) ==
  [exists |-> TRUE,
   rows |-> <<[filename |-> NameOf(c, Recordings[3]), logit |-> InferLogit[3],
               copies |-> MaxInferCopies],
              [filename |-> NameOf(c, Recordings[4]), logit |-> InferLogit[4],
               copies |-> MaxInferCopies]>>]

\* what a region may have on disk: no listing, both files, no inference table
RegionFiles(c) ==
  <<[raw_file_list |-> [exists |-> FALSE], inference_csv |-> SomeInference(c)],
    [raw_file_list |-> FullListing(c), inference_csv |-> SomeInference(c)],
    [raw_file_list |-> FullListing(c), inference_csv |-> [exists |-> FALSE]]>>

InitMain ==
  /\ ParseIdle
  /\ TimeIdle
  /\ ExpIdle
  /\ RunIdle
  /\ valid_sets = <<>>
  /\ LaterIdle
  /\ base_dir \in BaseDirs
  /\ \E pick \in [DOMAIN COUNTRY_CONFIG -> 1..3] :
       files = [c \in DOMAIN COUNTRY_CONFIG |-> RegionFiles(c)[pick[c]]]
  /\ countries \in Orders
  /\ combined_df = EmptyFrame
  /\ output_csv = [written |-> FALSE]
  /\ main_pc = "import"

\* the module body: BASE_DIR = os.getenv("BASE_DIR"); if not BASE_DIR: raise ValueError
ModuleLoad ==
  /\ main_pc = "import"
  /\ main_pc' = IF base_dir_missing(base_dir) THEN "aborted" ELSE "main"
  /\ UNCHANGED <<parseVars, timeVars, expVars, runVars, laterVars, valid_sets, base_dir, files,
                 countries, combined_df, output_csv>>

\* one turn of "for country in COUNTRIES"
ProcessNextCountry ==
  /\ main_pc = "main"
  /\ countries # <<>>
  /\ \E country \in {Head(countries)} :
       \E r \in {process_country(country, SOUND, LOGIT_CUTOFF, files[country].raw_file_list,
                                 files[country].inference_csv)} :
         IF r.raised
         THEN /\ main_pc' = "raised"
              /\ log' = log \cup {[level |-> "info", what |-> "processing", country |-> country]}
                            \cup r.log
              /\ UNCHANGED <<countries, combined_df>>
         ELSE /\ main_pc' = main_pc
              /\ log' = log \cup {[level |-> "info", what |-> "processing", country |-> country]}
                            \cup r.val.log
              /\ combined_df' = concat(combined_df, r.val.df)
              /\ countries' = Tail(countries)
  /\ UNCHANGED <<parseVars, timeVars, expVars, laterVars, valid_sets, base_dir, files, output_csv,
                 country_arg, raw_file_list, inference_csv, pc, df_raw_combos,
                 df_infer_counts, df_merged>>

\* after the loop: sort_values, to_csv and the closing log line
SaveCombined ==
  /\ main_pc = "main"
  /\ countries = <<>>
  /\ output_csv' = [written |-> TRUE, rows |-> sort_values(combined_df)]
  /\ log' = log \cup {[level |-> "info", what |-> "saved"]}
  /\ main_pc' = "done"
  /\ UNCHANGED <<parseVars, timeVars, expVars, laterVars, valid_sets, base_dir, files, countries,
                 combined_df, country_arg, raw_file_list, inference_csv, pc, df_raw_combos,
                 df_infer_counts, df_merged>>

NextMain == ModuleLoad \/ ProcessNextCountry \/ SaveCombined

SpecMain == InitMain /\ [][NextMain]_vars

(***************************************************************************)
(* Claims on the whole script (SpecMain)                                   *)
(***************************************************************************)
Regions == DOMAIN COUNTRY_CONFIG

ListingAbsent(c) == ~files[c].raw_file_list.exists

\* the regions whose turn of the loop is over
Finished(c) ==
  /\ main_pc \in {"main", "done"}
  /\ \A i \in DOMAIN countries : countries[i] # c

\* the rows of a table that belong to region c
RowsOfRegion(rows, c) == {r \in rows : r.country = c}

\* the one covered combination of a region whose listing is FullListing: the site,
\* local day and treatment of recording 3
IsFullDayRow(r, c) ==
  /\ r.country = c
  /\ r.site = Recordings[3].site
  /\ r.treatment = Recordings[3].treatment
  /\ ReadsAsDay(r.date, CalShift(Recordings[3].capture, COUNTRY_CONFIG[c].offset))

Range(seq) == {seq[i] : i \in DOMAIN seq}

\* C15: a region without raw_file_list.csv yields an empty result and a warning, and
\* the run goes on: every region processed after it contributes its rows to the
\* combined output.
C15_MissingListingSkipped ==
  /\ main_pc # "raised"
  /\ \A c \in Regions :
       (Finished(c) /\ ListingAbsent(c)) =>
         /\ RowsOfRegion(Rows(combined_df), c) = {}
         /\ \E e \in log : e.level = "warning" /\ e.what = "no raw_file_list" /\ e.country = c
  /\ \A c \in Regions :
       (Finished(c) /\ ~ListingAbsent(c)) =>
         \E r \in Rows(combined_df) : IsFullDayRow(r, c)
  /\ main_pc = "done" =>
       \A c \in Regions :
         /\ ListingAbsent(c) => RowsOfRegion(Range(output_csv.rows), c) = {}
         /\ ~ListingAbsent(c) => \E r \in Range(output_csv.rows) : IsFullDayRow(r, c)

\* the first region of each order has no listing, a later one has
C15_Witness ==
  /\ main_pc = "done"
  /\ ListingAbsent("australia") /\ ListingAbsent("mexico") /\ ListingAbsent("indonesia")
  /\ ~ListingAbsent("kenya")
  /\ \E r \in Range(output_csv.rows) : IsFullDayRow(r, "kenya")
  /\ \E e \in log : e.level = "warning" /\ e.what = "no raw_file_list" /\ e.country = "mexico"

(***************************************************************************)
(* SpecUnconfigured: process_country asked for a region that has no entry  *)
(* in COUNTRY_CONFIG                                                       *)
(***************************************************************************)
UnconfiguredRegion == "atlantis"

UnconfiguredName(rec) == MkFilename(rec.dir, <<"a", "t", "l">>, rec.site, rec.capture)

UnconfiguredListings ==
  {[exists |-> FALSE]} \cup
  {[exists |-> TRUE,
    rows |-> SelectSeq([i \in ListedRecordings |->
                          [filename |-> UnconfiguredName(Recordings[i]), copies |-> ks[i]]],
                       LAMBDA e : e.copies > 0)] :
     ks \in [ListedRecordings -> {0, SmallCount}]}

UnconfiguredInferenceTables ==
  {[exists |-> FALSE]} \cup
  {[exists |-> TRUE,
    rows |-> SelectSeq([i \in DOMAIN Recordings |->
                          [filename |-> UnconfiguredName(Recordings[i]),
                           logit |-> InferLogit[i], copies |-> ks[i]]],
                       LAMBDA e : e.copies > 0)] :
     ks \in [DOMAIN Recordings -> {0, MaxInferCopies}]}

InitUnconfigured ==
  /\ ParseIdle
  /\ TimeIdle
  /\ ExpIdle
  /\ ExtIdle
  /\ country_arg = UnconfiguredRegion
  /\ raw_file_list \in UnconfiguredListings
  /\ inference_csv \in UnconfiguredInferenceTables
  /\ pc = "start"
  /\ df_raw_combos = EmptyFrame
  /\ df_infer_counts = EmptyFrame
  /\ df_merged = EmptyFrame
  /\ log = {}

SpecUnconfigured == InitUnconfigured /\ [][Next]_vars

\* C16: processing a region that has no entry in the configuration table ends in an
\* error whatever files exist or are missing for it; it never returns a result.
C16_UnconfiguredFails ==
  country_arg \notin DOMAIN COUNTRY_CONFIG => pc # "returned"

(***************************************************************************)
(* Claim on the base path (SpecMain)                                       *)
(***************************************************************************)
\* BASE_DIR is not in the environment, or is there with no path in it
BaseDirNotConfigured == base_dir = [set |-> FALSE] \/ base_dir = [set |-> TRUE, val |-> ""]

\* C17: when the base path is not configured the run aborts before any region is
\* processed and before any output is written.
C17_NoBaseDirAborts ==
  (main_pc # "idle" /\ BaseDirNotConfigured) =>
    /\ main_pc \in {"import", "aborted"}
    /\ Len(countries) = Len(COUNTRIES)
    /\ \A e \in log : e.what # "processing"
    /\ combined_df = EmptyFrame
    /\ ~output_csv.written

C17_Witness ==
  /\ main_pc = "aborted"
  /\ base_dir = [set |-> TRUE, val |-> ""]
  /\ ~output_csv.written
  /\ Len(countries) = Len(COUNTRIES)

(***************************************************************************)
(* SpecPrefix: the extractors on listing cells that carry a directory      *)
(* prefix of one or two segments                                           *)
(***************************************************************************)
PrefixDirs == ListingDirs \cup {<<"a", "/", "b", "/">>}

PrefixCaptures == {Instant(2022, 8, 30, 13, 6, 0), Instant(2023, 1, 1, 3, 0, 0)}

InitPrefix ==
  /\ ParseIdle
  /\ ExpIdle
  /\ RunIdle
  /\ ExtIdle
  /\ region \in DOMAIN COUNTRY_CONFIG
  /\ capture \in PrefixCaptures
  /\ \E dir \in PrefixDirs :
       raw_cell = MkFilename(dir, CountryCode[region], <<"D", "2">>, capture)
  /\ dt_res = NotCalled
  /\ date_res = NotCalled
  /\ simple_res = NotCalled
  /\ hourly_res = NotCalled

\* treatment = parse_treatment(filename_part) on the stripped cell
StripAndParseTreatment ==
  /\ ~treatment_res.called
  /\ treatment_res' = parse_treatment(StripDir(raw_cell))
  /\ UNCHANGED <<extVars, expVars, runVars, timeVars, token, site_res>>

\* site = parse_site(filename_part) on the stripped cell
StripAndParseSite ==
  /\ ~site_res.called
  /\ site_res' = parse_site(StripDir(raw_cell))
  /\ UNCHANGED <<extVars, expVars, runVars, timeVars, token, treatment_res>>

NextPrefix == NextTime \/ StripAndParseTreatment \/ StripAndParseSite

SpecPrefix == InitPrefix /\ [][NextPrefix]_vars

\* C18: a filename with a path prefix ending in "/" is parsed to the same site,
\* treatment, timestamp and day as the filename without the prefix, for prefixes of
\* more than one "/" too.
C18_PrefixIgnored ==
  /\ treatment_res.called => treatment_res = Ret("degraded")
  /\ site_res.called => site_res = Ret(<<"D", "2">>)
  /\ dt_res.called => dt_res = Ret(CalShift(capture, COUNTRY_CONFIG[region].offset))
  /\ date_res.called =>
       /\ ~date_res.raised
       /\ ReadsAsDay(date_res.val, CalShift(capture, COUNTRY_CONFIG[region].offset))

(***************************************************************************)
(* Claim on the order of the regions (SpecMain)                            *)
(***************************************************************************)
\* what region c owes the output, told from its own files and configuration: the
\* count of its one covered combination
OwnCount(c) ==
  IF files[c].inference_csv.exists
  THEN COUNTRY_CONFIG[c].duty_cycle * MaxInferCopies
  ELSE 0

\* the rows of the output are those the regions owe, each region by itself
OutputIsPerRegion ==
  \A c \in Regions :
    LET mine == {i \in DOMAIN output_csv.rows : output_csv.rows[i].country = c}
    IN  IF ListingAbsent(c) THEN mine = {}
        ELSE /\ Cardinality(mine) = 1
             /\ \A i \in mine :
                  /\ IsFullDayRow(output_csv.rows[i], c)
                  /\ output_csv.rows[i].count = OwnCount(c)

\* C19: each region's result depends only on its own listing, inference table and
\* configuration: the combined output holds the same rows whatever the order the
\* regions are processed in, and processing a region changes none of the files.
C19_OrderIndependent ==
  /\ [](main_pc = "done" => OutputIsPerRegion)
  /\ [][files' = files]_vars

C19_Witness ==
  /\ main_pc = "done"
  /\ ~ListingAbsent("australia") /\ files["australia"].inference_csv.exists
  /\ ~ListingAbsent("mexico") /\ ~files["mexico"].inference_csv.exists
  /\ ListingAbsent("kenya")
  /\ Len(output_csv.rows) >= 2
  /\ OutputIsPerRegion

(***************************************************************************)
(* SpecDayFormat: the day extractors on well-formed names of any four-     *)
(* digit year                                                              *)
(***************************************************************************)
FourDigits(n) ==
  <<Digits[(n \div 1000) + 1], Digits[((n \div 100) % 10) + 1],
    Digits[((n \div 10) % 10) + 1], Digits[(n % 10) + 1]>>

\* a name as the recorder writes it, the year on four digits
PaddedFilename(dir, code, site, c) ==
  dir \o code \o <<"_">> \o site \o <<"_">> \o FourDigits(c.year) \o TwoDigits(c.month)
      \o TwoDigits(c.day) \o <<"_">> \o TwoDigits(c.hour) \o TwoDigits(c.minute)
      \o TwoDigits(c.second) \o <<".", "W", "A", "V">>

DayFormatCaptures ==
  {Instant(2022, 8, 30, 13, 6, 0), Instant(2023, 1, 1, 3, 0, 0), Instant(2024, 2, 28, 20, 0, 0),
   Instant(1000, 1, 1, 3, 0, 0), Instant(999, 1, 1, 12, 0, 0), Instant(1001, 6, 15, 12, 0, 0)}

InitDayFormat ==
  /\ ParseIdle
  /\ ExpIdle
  /\ RunIdle
  /\ ExtIdle
  /\ region \in DOMAIN COUNTRY_CONFIG
  /\ capture \in DayFormatCaptures
  /\ \E dir \in ListingDirs :
       raw_cell = PaddedFilename(dir, CountryCode[region], <<"D", "2">>, capture)
  /\ dt_res = NotCalled
  /\ date_res = NotCalled
  /\ simple_res = NotCalled
  /\ hourly_res = NotCalled

SpecDayFormat == InitDayFormat /\ [][NextTime]_vars

\* v is 8 characters, all digits
IsEightDigits(v) == Len(v) = 8 /\ \A i \in 1..8 : IsDigit(v[i])

\* C20: every day that keys an output row is an 8-character string of digits in
\* YYYYMMDD form.
C20_DayIsEightDigits ==
  /\ Returned(date_res) => IsEightDigits(date_res.val)
  /\ Returned(simple_res) => IsEightDigits(simple_res.val)
  /\ Returned(hourly_res) => IsEightDigits(hourly_res.val)

(***************************************************************************)
(* count_ecofunctions: the metadata extractor that temporal_overlap.py,    *)
(* temporal_overlap_aggreg.py, phonic_richness.py and settlement_cues.py   *)
(* import, written from sections 4.1 and 4.2 of the specification          *)
(***************************************************************************)
\* the character at index 4 names the treatment, anything else is unknown
extract_treatment(filename_part) ==
  IF Len(filename_part) < 5 THEN Ret("unknown")
  ELSE IF filename_part[5] = "H" THEN Ret("healthy")
  ELSE IF filename_part[5] = "D" THEN Ret("degraded")
  ELSE IF filename_part[5] = "R" THEN Ret("restored")
  ELSE IF filename_part[5] = "N" THEN Ret("newly_restored")
  ELSE Ret("unknown")

\* the second "_"-separated field, unknown when there are fewer than two
extract_site(filename_part) ==
  LET fields == Split(filename_part, "_")
  IN  IF Len(fields) < 2 THEN Ret(UNKNOWN) ELSE Ret(fields[2])

\* the pattern YYYYMMDD_HHMMSS: eight digits, "_", six digits
MatchesPattern(s) ==
  /\ Len(s) = 15
  /\ \A i \in (1..8) \cup (10..15) : IsDigit(s[i])
  /\ s[9] = "_"

\* the 15 characters from offset 7 parsed as a naive timestamp, the region's signed
\* hour offset added
extract_local_datetime(filename_part, country) ==
  IF country \notin DOMAIN COUNTRY_CONFIG THEN Raise("ConfigurationError")
  ELSE Eval(Slice(filename_part, 7, 7 + 15), LAMBDA s :
         IF ~MatchesPattern(s) THEN Raise("ParseError")
         ELSE Eval(strptime(s), LAMBDA instant :
                IF instant.raised THEN Raise("ParseError")
                ELSE AddHours(instant.val, COUNTRY_CONFIG[country].offset)))

\* the corrected timestamp truncated to its date, as 8-digit YYYYMMDD
extract_date(filename_part, country) ==
  Eval(extract_local_datetime(filename_part, country), LAMBDA corrected :
    IF corrected.raised THEN corrected
    ELSE Ret(FourDigits(corrected.val.year) \o TwoDigits(corrected.val.month)
               \o TwoDigits(corrected.val.day)))

(***************************************************************************)
(* temporal_overlap.py: per sound, the detection times on (site, date)     *)
(* pairs with 95% coverage, written out and handed to gaussian_kde         *)
(***************************************************************************)
\* FILE_COVERAGE's 0.9 in place of 0.95
COVERAGE_THRESHOLD_mut == [num |-> 90, den |-> 100]

\* COVERAGE_THRESHOLD = 0.95, as a fraction
COVERAGE_THRESHOLD == [num |-> 95, den |-> 100]

TREATMENTS == <<"healthy", "degraded", "restored", "newly_restored">>

RECURSIVE site_date_rows(_, _)
\* df_raw["date"] and df_raw["site"] of get_valid_site_dates, row by row
site_date_rows(rows, country) ==
  IF rows = <<>> THEN Ret(<<>>)
  ELSE Eval(StripDir(Head(rows).filename), LAMBDA filename_part :
         Eval(extract_date(filename_part, country), LAMBDA date :
           IF date.raised THEN date
           ELSE Eval(site_date_rows(Tail(rows), country), LAMBDA rest :
                  IF rest.raised THEN rest
                  ELSE Ret(<<[row |-> [site |-> extract_site(filename_part).val,
                                       date |-> date.val],
                              copies |-> Head(rows).copies]>> \o rest.val))))

\* the pairs below the threshold kept in place of those at or above it
get_valid_site_dates_mut(country, threshold, csv) ==
  IF ~csv.exists
  THEN Ret([pairs |-> {},
            log |-> {[level |-> "warning", what |-> "no raw_file_list", country |-> country]}])
  ELSE Eval(site_date_rows(csv.rows, country), LAMBDA rows :
         IF rows.raised THEN rows
         ELSE Eval(groupby_site_date(FrameOf(rows.val)), LAMBDA df_counts :
                IF country \notin DOMAIN COUNTRY_CONFIG THEN Raise("KeyError")
                ELSE Eval(get_expected_daily_recordings(COUNTRY_CONFIG[country].duty_cycle).val,
                          LAMBDA expected_daily :
                            Ret([pairs |-> {<<k.site, k.date>> : k \in
                                   {x \in DOMAIN df_counts :
                                      df_counts[x] * threshold.den
                                        < expected_daily * threshold.num}},
                                 log |-> {}]))))

\* get_valid_site_dates: the (site, date) pairs with n_files >= expected_daily * threshold
get_valid_site_dates(country, threshold, csv) ==
  IF ~csv.exists
  THEN Ret([pairs |-> {},
            log |-> {[level |-> "warning", what |-> "no raw_file_list", country |-> country]}])
  ELSE Eval(site_date_rows(csv.rows, country), LAMBDA rows :
         IF rows.raised THEN rows
         ELSE Eval(groupby_site_date(FrameOf(rows.val)), LAMBDA df_counts :
                IF country \notin DOMAIN COUNTRY_CONFIG THEN Raise("KeyError")
                ELSE Eval(get_expected_daily_recordings(COUNTRY_CONFIG[country].duty_cycle).val,
                          LAMBDA expected_daily :
                            Ret([pairs |-> {<<k.site, k.date>> : k \in
                                   {x \in DOMAIN df_counts :
                                      df_counts[x] * threshold.den
                                        >= expected_daily * threshold.num}},
                                 log |-> {}]))))

RECURSIVE detection_records(_, _, _)
\* the "for _, row in df_infer.iterrows()" loop of process_sound_country: one record
\* per detection on a valid pair; time is dt.hour + dt.minute/60 + dt.second/3600,
\* held in 3600ths of an hour
detection_records(rows, country, valid_pairs) ==
  IF rows = <<>> THEN Ret(<<>>)
  ELSE Eval(StripDir(Head(rows).filename), LAMBDA filename_part :
         Eval(extract_date(filename_part, country), LAMBDA date_str :
           IF date_str.raised THEN date_str
           ELSE Eval(detection_records(Tail(rows), country, valid_pairs), LAMBDA rest :
                  IF rest.raised THEN rest
                  ELSE IF <<extract_site(filename_part).val, date_str.val>> \notin valid_pairs
                  THEN rest
                  ELSE Eval(extract_local_datetime(filename_part, country), LAMBDA dt :
                         IF dt.raised THEN rest
                         ELSE Ret(<<[row |-> [treatment |-> extract_treatment(filename_part).val,
                                              time |-> dt.val.hour * 3600 + dt.val.minute * 60
                                                         + dt.val.second],
                                     copies |-> Head(rows).copies]>> \o rest.val)))))

\* gaussian_kde(times, bw_method=SMOOTHING) on a bag of times: ValueError for a dataset
\* of one element; LinAlgError when the covariance numpy computes is exactly zero; the
\* estimator of the dataset otherwise.  Times that differ have a positive covariance.
\* For n copies of one time the covariance is zero when the computed mean is that
\* time: it is for n = 2 and n = 4, where every step of the mean is exact; for other
\* n it depends on how the floating-point sum rounds for that time and on whether the
\* library takes the plain or the weighted mean, which the model does not compute:
\* zero_cov holds the datasets for which the arithmetic at hand gives zero.
gaussian_kde(times, zero_cov) ==
  IF \E time \in DOMAIN times : DOMAIN times = {time} /\ times[time] = 1
  THEN Raise("ValueError")
  ELSE IF \E time \in DOMAIN times :
            DOMAIN times = {time} /\ (times[time] \in {2, 4} \/ times \in zero_cov)
  THEN Raise("LinAlgError")
  ELSE Ret(times)

\* kernels[treatment]: None when the treatment has no record (times.size == 0) or
\* when gaussian_kde raised, which the except branch logs as an error; otherwise the
\* density of df_records[df_records["treatment"] == treatment]["time"].values
kernel_times(records, treatment, zero_cov) ==
  LET mine == SelectSeq(records, LAMBDA e : e.row.treatment = treatment)
  IN  IF mine = <<>> THEN [fitted |-> FALSE, error |-> "none"]
      ELSE Eval(gaussian_kde(FrameOf([i \in DOMAIN mine |->
                                        [row |-> mine[i].row.time, copies |-> mine[i].copies]]),
                             zero_cov),
                LAMBDA kde :
                  IF kde.raised THEN [fitted |-> FALSE, error |-> kde.exc]
                  ELSE [fitted |-> TRUE, dataset |-> kde.val])

\* the datasets of one time among the kernels of a run in which none of them had a
\* zero covariance: those whose outcome the rounding of the mean decides
rounding_decides(out) ==
  {k.dataset : k \in {x \in UNION {{o.kernels[t] : t \in DOMAIN o.kernels} : o \in out} :
                        x.fitted /\ Cardinality(DOMAIN x.dataset) = 1}}

RECURSIVE sound_folders(_, _, _, _)
\* the "for sound_folder in os.listdir(agile_dir)" loop: what is written for each
\* sound folder, and the exception that ends the loop, if any
sound_folders(folders, country, valid_pairs, zero_cov) ==
  IF folders = <<>> THEN [out |-> {}, exc |-> "none"]
  ELSE LET f == Head(folders)
       IN  IF ~f.is_dir \/ ~f.csv.exists
           THEN sound_folders(Tail(folders), country, valid_pairs, zero_cov)
           ELSE Eval(SelectSeq(f.csv.rows, LAMBDA e : e.logit >= 10), LAMBDA df_infer :
                  IF df_infer = <<>> THEN sound_folders(Tail(folders), country, valid_pairs, zero_cov)
                  ELSE Eval(detection_records(df_infer, country, valid_pairs), LAMBDA records :
                         IF records.raised THEN [out |-> {}, exc |-> records.exc]
                         ELSE Eval(sound_folders(Tail(folders), country, valid_pairs, zero_cov), LAMBDA rest :
                                IF records.val = <<>> THEN rest
                                ELSE [out |-> {[country |-> country, sound |-> f.name,
                                                records |-> records.val,
                                                kernels |-> [t \in {TREATMENTS[i] : i \in DOMAIN TREATMENTS}
                                                               |-> kernel_times(records.val, t, zero_cov)]]}
                                                \cup rest.out,
                                      exc |-> rest.exc])))

\* process_sound_country: nothing without the agile_outputs directory
process_sound_country(country, valid_pairs, agile, zero_cov) ==
  IF ~agile.exists
  THEN [out |-> {}, exc |-> "none",
        log |-> {[level |-> "warning", what |-> "no agile_outputs", country |-> country]}]
  ELSE Eval(sound_folders(agile.folders, country, valid_pairs, zero_cov), LAMBDA r :
         [out |-> r.out, exc |-> r.exc, log |-> {}])

(***************************************************************************)
(* SpecKernel: temporal_overlap.main over the regions of COUNTRY_CONFIG    *)
(***************************************************************************)
\* the least record count at 95% and at 90% of the region's expected daily count
AtNinetyFive(c) == IF COUNTRY_CONFIG[c].duty_cycle = 2 THEN 684 ELSE 342

AtNinety(c) == IF COUNTRY_CONFIG[c].duty_cycle = 2 THEN 648 ELSE 324

\* a listing with ks[i] rows for recording i
ListingOf(c, ks) ==
  [exists |-> TRUE,
   rows |-> SelectSeq([i \in ListedRecordings |->
                         [filename |-> NameOf(c, Recordings[i]), copies |-> ks[i]]],
                      LAMBDA e : e.copies > 0)]

\* an inference table with a row of logit logits[i], in tenths, for every recording
InferenceOf(c, logits) ==
  [exists |-> TRUE,
   rows |-> [i \in DOMAIN Recordings |->
               [filename |-> NameOf(c, Recordings[i]), logit |-> logits[i],
                copies |-> IF i = 1 THEN MaxInferCopies ELSE 1]]]

\* agile_outputs: a sound whose degraded detections are all of one recording, a stray
\* file, a folder without its csv, a sound whose rows are all below the cutoff, a
\* sound with degraded detections at two times of day and a sound with five
\* detections of one recording
AgileOutputs(c) ==
  [exists |-> TRUE,
   folders |-> <<[name |-> "scrape", is_dir |-> TRUE, csv |-> InferenceOf(c, InferLogit)],
                 [name |-> "notes.txt", is_dir |-> FALSE],
                 [name |-> "croak", is_dir |-> TRUE, csv |-> [exists |-> FALSE]],
                 [name |-> "hum", is_dir |-> TRUE, csv |-> InferenceOf(c, <<9, 9, 9, 9>>)],
                 [name |-> "grunt", is_dir |-> TRUE, csv |-> InferenceOf(c, <<15, 12, 20, 9>>)],
                 [name |-> "click", is_dir |-> TRUE,
                  csv |-> [exists |-> TRUE,
                           rows |-> <<[filename |-> NameOf(c, Recordings[1]), logit |-> 15,
                                       copies |-> 5]>>]]>>]

\* the files a region may come with: no listing; one site at 95% and one just below;
\* one site at 90% and one just below 95%; the 95% of one site spread over two
\* recordings; a full listing without agile_outputs
KernelRegionFiles(c) ==
  <<[raw_file_list |-> [exists |-> FALSE], agile |-> AgileOutputs(c)],
    [raw_file_list |-> ListingOf(c, <<AtNinetyFive(c), 0, AtNinetyFive(c) - 1>>),
     agile |-> AgileOutputs(c)],
    [raw_file_list |-> ListingOf(c, <<AtNinety(c), 0, AtNinetyFive(c) - 1>>),
     agile |-> AgileOutputs(c)],
    [raw_file_list |-> ListingOf(c, <<AtNinetyFive(c) - 142, 142, AtNinetyFive(c)>>),
     agile |-> AgileOutputs(c)],
    [raw_file_list |-> ListingOf(c, <<AtNinetyFive(c), AtNinetyFive(c), AtNinetyFive(c)>>),
     agile |-> [exists |-> FALSE]]>>

\* regions whose files are drawn together
Deployment ==
  ("australia" :> "a") @@ ("maldives" :> "a") @@ ("kenya" :> "b") @@ ("mexico" :> "b") @@
  ("indonesia" :> "c")

\* what temporal_overlap.py does not touch
notKernelVars == <<parseVars, timeVars, expVars, runVars, valid_sets, mainVars, nightVars, richVars, aggregVars, renameVars, shiftVars, monoVars, shannonVars, rerunVars>>

NotKernelIdle ==
  /\ ParseIdle
  /\ TimeIdle
  /\ ExpIdle
  /\ RunIdle
  /\ valid_sets = <<>>
  /\ MainIdle
  /\ NightIdle
  /\ RichIdle
  /\ AggregIdle
  /\ RenameIdle
  /\ ShiftIdle
  /\ MonoIdle
  /\ ShannonIdle
  /\ RerunIdle

InitKernel ==
  /\ NotKernelIdle
  /\ \E pick \in [{"a", "b", "c"} -> 1..5] :
       kernel_files = [c \in DOMAIN COUNTRY_CONFIG |-> KernelRegionFiles(c)[pick[Deployment[c]]]]
  /\ kernel_countries = <<>>
  /\ kernel_out = {}
  /\ kernel_log = {}
  /\ kernel_pc = "start"

\* main up to the loop: "for country in COUNTRY_CONFIG.keys()"
KernelMainStart ==
  /\ kernel_pc = "start"
  /\ kernel_countries' = COUNTRIES
  /\ kernel_pc' = "loop"
  /\ UNCHANGED <<notKernelVars, kernel_files, kernel_out, kernel_log>>

\* one turn of main's loop: the valid pairs of the region, then its sounds; zero_cov
\* is what the arithmetic of gaussian_kde gives for the datasets of one time
KernelProcessCountry ==
  /\ kernel_pc = "loop"
  /\ kernel_countries # <<>>
  /\ LET country == Head(kernel_countries)
         more == IF Tail(kernel_countries) = <<>> THEN "done" ELSE "loop"
     IN  \E valid \in {get_valid_site_dates(country, COVERAGE_THRESHOLD,
                                            kernel_files[country].raw_file_list)} :
           IF valid.raised
           THEN /\ kernel_pc' = "raised"
                /\ UNCHANGED <<kernel_countries, kernel_out, kernel_log>>
           ELSE IF valid.val.pairs = {}
           THEN /\ kernel_log' = kernel_log \cup valid.val.log \cup
                                   {[level |-> "info", what |-> "skipping", country |-> country]}
                /\ kernel_countries' = Tail(kernel_countries)
                /\ kernel_pc' = more
                /\ UNCHANGED kernel_out
           ELSE \E zero_cov \in SUBSET rounding_decides(
                                   process_sound_country(country, valid.val.pairs,
                                                         kernel_files[country].agile, {}).out) :
                \E r \in {process_sound_country(country, valid.val.pairs,
                                                kernel_files[country].agile, zero_cov)} :
                  /\ kernel_out' = kernel_out \cup r.out
                  /\ kernel_log' = kernel_log \cup valid.val.log \cup r.log
                  /\ IF r.exc = "none"
                     THEN /\ kernel_countries' = Tail(kernel_countries)
                          /\ kernel_pc' = more
                     ELSE /\ kernel_pc' = "raised"
                          /\ UNCHANGED kernel_countries
  /\ UNCHANGED <<notKernelVars, kernel_files>>

NextKernel == KernelMainStart \/ KernelProcessCountry

SpecKernel == InitKernel /\ [][NextKernel]_vars

(***************************************************************************)
(* Claim on the temporal kernels (SpecKernel), stated on the recordings    *)
(* the files were made of                                                  *)
(***************************************************************************)
\* the local instant of recording i in region c
LocalInstant(c, i) == CalShift(Recordings[i].capture, COUNTRY_CONFIG[c].offset)

\* recordings i and j of region c belong to the same site and local day
SamePair(c, i, j) ==
  /\ Recordings[i].site = Recordings[j].site
  /\ LocalInstant(c, i).year = LocalInstant(c, j).year
  /\ LocalInstant(c, i).month = LocalInstant(c, j).month
  /\ LocalInstant(c, i).day = LocalInstant(c, j).day

RECURSIVE PairCountIn(_, _, _, _)
\* the rows of a listing whose recording is of the pair of recording i
PairCountIn(S, rows, c, i) ==
  IF S = {} THEN 0
  ELSE LET j == CHOOSE x \in S : TRUE
       IN  (IF SamePair(c, i, j) THEN CopiesOf(rows, NameOf(c, Recordings[j])) ELSE 0)
             + PairCountIn(S \ {j}, rows, c, i)

\* the recording count of the pair of recording i in region c's listing
PairCount(csv, c, i) ==
  IF csv.exists THEN PairCountIn(DOMAIN Recordings, csv.rows, c, i) ELSE 0

\* floor(1440 / duty cycle) of region c
ExpectedIn(c) ==
  CHOOSE e \in 0..1440 : e * COUNTRY_CONFIG[c].duty_cycle <= 1440
                           /\ 1440 < (e + 1) * COUNTRY_CONFIG[c].duty_cycle

\* the pair of recording i has at least 95% of the expected daily count
CoveredAt95(c, i) == 100 * PairCount(kernel_files[c].raw_file_list, c, i) >= 95 * ExpectedIn(c)

\* the treatment the site letter of recording i stands for, and its local time of day
IsTimeOf(row, c, i) ==
  /\ row.treatment = Recordings[i].treatment
  /\ row.time = LocalInstant(c, i).hour * 3600 + LocalInstant(c, i).minute * 60
                  + LocalInstant(c, i).second

FromCoveredPair(row, c) == \E i \in DOMAIN Recordings : IsTimeOf(row, c, i) /\ CoveredAt95(c, i)

\* C21: every detection time written out or handed to a density comes from a
\* (site, day) pair whose recording count is at least 95% of the expected daily
\* count, and a region without such a pair gets no output at all.
C21_KernelOnlyCovered ==
  /\ \A o \in kernel_out :
       /\ \A k \in DOMAIN o.records : FromCoveredPair(o.records[k].row, o.country)
       /\ \A t \in DOMAIN o.kernels :
            o.kernels[t].fitted =>
              \A time \in DOMAIN o.kernels[t].dataset :
                FromCoveredPair([treatment |-> t, time |-> time], o.country)
  /\ \A c \in DOMAIN COUNTRY_CONFIG :
       (\A i \in DOMAIN Recordings : ~CoveredAt95(c, i)) =>
         \A o \in kernel_out : o.country # c

\* a finished run in which one region had a detection on a pair at 95% written out,
\* a detection at or above the cutoff on a pair between 90% and 95% left out, and
\* another region with a pair at 90% but none at 95% was passed over; one kernel was
\* fitted on two times of day, one failed on a single detection and one on two
\* detections of one time; of the five detections of one time, the kernel was fitted
\* in one region and failed in another
C21_Witness ==
  /\ kernel_pc = "done"
  /\ \E o \in kernel_out :
       /\ o.sound = "grunt"
       /\ o.kernels["degraded"].fitted
       /\ Cardinality(DOMAIN o.kernels["degraded"].dataset) = 2
       /\ ~o.kernels["healthy"].fitted /\ o.kernels["healthy"].error = "ValueError"
  /\ \E o \in kernel_out :
       /\ o.sound = "scrape"
       /\ ~o.kernels["degraded"].fitted /\ o.kernels["degraded"].error = "LinAlgError"
  /\ \E o \in kernel_out :
       /\ o.sound = "click"
       /\ ~o.kernels["degraded"].fitted /\ o.kernels["degraded"].error = "LinAlgError"
  /\ \E o \in kernel_out :
       /\ o.sound = "click"
       /\ o.kernels["degraded"].fitted
       /\ Cardinality(DOMAIN o.kernels["degraded"].dataset) = 1
  /\ \E c \in DOMAIN COUNTRY_CONFIG :
       /\ \E o \in kernel_out : o.country = c /\ o.sound = "scrape"
       /\ \E i \in DOMAIN Recordings :
            /\ ~CoveredAt95(c, i)
            /\ 10 * PairCount(kernel_files[c].raw_file_list, c, i) >= 9 * ExpectedIn(c)
            /\ InferLogit[i] >= 10
  /\ \E c \in DOMAIN COUNTRY_CONFIG :
       /\ \A i \in DOMAIN Recordings : ~CoveredAt95(c, i)
       /\ \E i \in DOMAIN Recordings :
            10 * PairCount(kernel_files[c].raw_file_list, c, i) >= 9 * ExpectedIn(c)
       /\ [level |-> "info", what |-> "skipping", country |-> c] \in kernel_log

(***************************************************************************)
(* settlement_cues.py: the proportion of night-time 5-second windows with  *)
(* a detection, per site and night                                         *)
(***************************************************************************)
UPPERCASE ==
  <<"A", "B", "C", "D", "E", "F", "G", "H", "I", "J", "K", "L", "M",
    "N", "O", "P", "Q", "R", "S", "T", "U", "V", "W", "X", "Y", "Z">>

LOWERCASE ==
  <<"a", "b", "c", "d", "e", "f", "g", "h", "i", "j", "k", "l", "m",
    "n", "o", "p", "q", "r", "s", "t", "u", "v", "w", "x", "y", "z">>

\* str.lower() on ASCII text
lower(s) ==
  [i \in DOMAIN s |->
     IF \E k \in 1..26 : UPPERCASE[k] = s[i]
     THEN LOWERCASE[CHOOSE k \in 1..26 : UPPERCASE[k] = s[i]]
     ELSE s[i]]

RECURSIVE simple_rows(_)
\* the loop of load_raw_file_list_simple: (filename, site, filename_part[7:15])
simple_rows(rows) ==
  IF rows = <<>> THEN <<>>
  ELSE Eval(StripDir(Head(rows).filename), LAMBDA filename_part :
         <<[row |-> [filename |-> Head(rows).filename,
                     site |-> parse_site(filename_part).val,
                     date |-> simple_date(filename_part).val],
            copies |-> Head(rows).copies]>> \o simple_rows(Tail(rows)))

RECURSIVE drop_duplicates(_)
\* DataFrame.drop_duplicates: the first of equal rows stays
drop_duplicates(seq) ==
  IF seq = <<>> THEN <<>>
  ELSE LET front == drop_duplicates(SubSeq(seq, 1, Len(seq) - 1))
           last == seq[Len(seq)]
       IN  IF \E i \in DOMAIN front : front[i] = last THEN front ELSE front \o <<last>>

\* load_raw_file_list_simple: the rows of the (site, date) pairs with 90% coverage,
\* each once, and what it logs
load_raw_file_list_simple(country, csv) ==
  IF ~csv.exists
  THEN Ret([df |-> <<>>,
            log |-> {[level |-> "warning", what |-> "no raw_file_list", country |-> country]}])
  ELSE Eval(simple_rows(csv.rows), LAMBDA rows :
         IF country \notin DOMAIN COUNTRY_CONFIG THEN Raise("KeyError")
         ELSE Eval(get_expected_daily_recordings(COUNTRY_CONFIG[country].duty_cycle).val,
                   LAMBDA expected_daily :
                Eval(groupby_site_date(FrameOf(rows)), LAMBDA df_counts :
                  LET insufficient == {k \in DOMAIN df_counts :
                                         is_insufficient(df_counts[k], expected_daily)}
                      kept == {k \in DOMAIN df_counts :
                                 is_sufficient(df_counts[k], expected_daily)}
                      valid == SelectSeq(rows, LAMBDA e :
                                 [site |-> e.row.site, date |-> e.row.date] \in kept)
                  IN  Ret([df |-> drop_duplicates([i \in DOMAIN valid |-> valid[i].row]),
                           log |-> {[level |-> "info", what |-> "excluding",
                                     country |-> country, site |-> k.site, date |-> k.date,
                                     n_files |-> df_counts[k], expected |-> expected_daily] :
                                      k \in insufficient}]))))

\* a datetime as its ordinal day and second of the day
At(day, seconds) == [day |-> day + (seconds \div 86400), second |-> seconds % 86400]

\* a <= b for two datetimes
NotAfter(a, b) == a.day < b.day \/ (a.day = b.day /\ a.second <= b.second)

\* get_night_window: sunset of the_date less 30 minutes to sunrise of the next day
\* plus 30 minutes
get_night_window(the_date, sun) ==
  IF the_date + 1 > MAXORDINAL THEN Raise("OverflowError")
  ELSE Ret([night_start |-> At(the_date, sun.sunset - 1800),
            night_end |-> At(the_date + 1, sun.sunrise + 1800)])

\* the night dt_local starts in: that of its own date, else that of the day before
night_of(dt_local, sun) ==
  LET local_date == ymd2ord(dt_local.year, dt_local.month, dt_local.day)
      t == At(local_date, dt_local.hour * 3600 + dt_local.minute * 60 + dt_local.second)
  IN  Eval(get_night_window(local_date, sun), LAMBDA own :
        IF own.raised THEN own
        ELSE IF NotAfter(own.val.night_start, t) /\ ~NotAfter(own.val.night_end, t)
        THEN Ret([found |-> TRUE, night_of_date |-> local_date])
        ELSE IF local_date - 1 < 1 THEN Raise("OverflowError")
        ELSE Eval(get_night_window(local_date - 1, sun), LAMBDA prev :
               IF NotAfter(prev.val.night_start, t) /\ ~NotAfter(prev.val.night_end, t)
               THEN Ret([found |-> TRUE, night_of_date |-> local_date - 1])
               ELSE Ret([found |-> FALSE])))

RECURSIVE night_rows(_, _, _)
\* the loop of gather_night_total_windows: (country, site, night, 12) for every
\* valid file that starts in a night window
night_rows(df_raw, country, sun) ==
  IF df_raw = <<>> THEN Ret(<<>>)
  ELSE Eval(extract_local_datetime(Head(df_raw).filename, country), LAMBDA dt_local :
         IF dt_local.raised THEN dt_local
         ELSE Eval(night_of(dt_local.val, sun), LAMBDA night :
                IF night.raised THEN night
                ELSE Eval(night_rows(Tail(df_raw), country, sun), LAMBDA rest :
                       IF rest.raised THEN rest
                       ELSE IF ~night.val.found THEN rest
                       ELSE Ret(<<[row |-> [country |-> country, site |-> Head(df_raw).site,
                                            night_of_date |->
                                              strftime_Ymd(ord2ymd(night.val.night_of_date))],
                                   copies |-> 12]>> \o rest.val))))

\* gather_night_total_windows: 12 windows per valid file that starts in the night,
\* summed per (country, site, night)
gather_night_total_windows(country, csv, sun) ==
  Eval(load_raw_file_list_simple(country, csv), LAMBDA df_raw :
    IF df_raw.raised THEN [called |-> TRUE, raised |-> TRUE, exc |-> df_raw.exc, log |-> {}]
    ELSE IF df_raw.val.df = <<>> THEN Ret([df |-> <<>>, log |-> df_raw.val.log])
    ELSE Eval(night_rows(df_raw.val.df, country, sun), LAMBDA rows :
           IF rows.raised
           THEN [called |-> TRUE, raised |-> TRUE, exc |-> rows.exc, log |-> df_raw.val.log]
           ELSE Ret([df |-> FrameOf(rows.val), log |-> df_raw.val.log])))

SNAPS == <<"s", "n", "a", "p", "s">>

RECURSIVE presence_rows(_, _, _)
\* the row loop of gather_night_inferences: (country, site, night, 1) for every
\* detection that starts in a night window
presence_rows(df_infer, country, sun) ==
  IF df_infer = <<>> THEN Ret(<<>>)
  ELSE Eval(StripDir(Head(df_infer).filename), LAMBDA filename_part :
         Eval(extract_local_datetime(filename_part, country), LAMBDA dt_local :
           IF dt_local.raised THEN dt_local
           ELSE Eval(night_of(dt_local.val, sun), LAMBDA night :
                  IF night.raised THEN night
                  ELSE Eval(presence_rows(Tail(df_infer), country, sun), LAMBDA rest :
                         IF rest.raised THEN rest
                         ELSE IF ~night.val.found THEN rest
                         ELSE Ret(<<[row |-> [country |-> country,
                                              site |-> extract_site(filename_part).val,
                                              night_of_date |->
                                                strftime_Ymd(ord2ymd(night.val.night_of_date))],
                                     copies |-> Head(df_infer).copies]>> \o rest.val)))))

RECURSIVE night_folders(_, _, _)
\* the folder loop of gather_night_inferences
night_folders(folders, country, sun) ==
  IF folders = <<>> THEN Ret(<<>>)
  ELSE LET f == Head(folders)
       IN  IF lower(f.name) = SNAPS \/ ~f.is_dir \/ ~f.csv.exists
           THEN night_folders(Tail(folders), country, sun)
           ELSE Eval(presence_rows(SelectSeq(f.csv.rows, LAMBDA e : e.logit >= LOGIT_CUTOFF),
                                   country, sun), LAMBDA mine :
                  IF mine.raised THEN mine
                  ELSE Eval(night_folders(Tail(folders), country, sun), LAMBDA rest :
                         IF rest.raised THEN rest ELSE Ret(mine.val \o rest.val)))

\* gather_night_inferences: one row per night-time detection of a sound other than snaps
gather_night_inferences(country, agile, sun) ==
  IF ~agile.exists
  THEN Ret([df |-> <<>>,
            log |-> {[level |-> "warning", what |-> "no agile_outputs", country |-> country]}])
  ELSE Eval(night_folders(agile.folders, country, sun), LAMBDA rows :
         IF rows.raised THEN rows ELSE Ret([df |-> FrameOf(rows.val), log |-> {}]))

\* the merge of process_country_nighttime_proportion: detections summed per night,
\* joined to the totals, missing sums filled with 0, the proportion as a fraction
night_proportion(total, detect) ==
  {[country |-> k.country, site |-> k.site, date |-> k.night_of_date,
    proportion_night_detections |->
      [num |-> IF k \in DOMAIN detect THEN detect[k] ELSE 0, den |-> total[k]]] :
     k \in DOMAIN total}

(***************************************************************************)
(* SpecNight: process_country_nighttime_proportion on one region           *)
(***************************************************************************)
\* files of one site around 2 January 2023: before sunrise, in the evening, before
\* the next sunrise, at noon on another site, and one listed under a directory
NightRecordings ==
  <<[dir |-> <<>>, site |-> <<"D", "2">>, capture |-> Instant(2023, 1, 2, 3, 0, 0)],
    [dir |-> <<>>, site |-> <<"D", "2">>, capture |-> Instant(2023, 1, 2, 20, 0, 0)],
    [dir |-> <<>>, site |-> <<"D", "2">>, capture |-> Instant(2023, 1, 3, 4, 0, 0)],
    [dir |-> <<>>, site |-> <<"H", "1">>, capture |-> Instant(2023, 1, 2, 12, 0, 0)],
    [dir |-> <<"r", "a", "w", "/">>, site |-> <<"D", "2">>,
     capture |-> Instant(2023, 1, 2, 21, 0, 0)]>>

NightName(c, i) ==
  MkFilename(NightRecordings[i].dir, CountryCode[c], NightRecordings[i].site,
             NightRecordings[i].capture)

\* an inference csv with ks[i] rows for recording i, each with the logit given
NightCsv(c, ks, logit) ==
  [exists |-> TRUE,
   rows |-> SelectSeq([i \in DOMAIN NightRecordings |->
                         [filename |-> NightName(c, i), copies |-> ks[i], logit |-> logit]],
                      LAMBDA e : e.copies > 0)]

\* a listing with ks[i] rows for recording i
NightListing(c, ks) ==
  [exists |-> TRUE,
   rows |-> SelectSeq([i \in DOMAIN NightRecordings |->
                         [filename |-> NightName(c, i), copies |-> ks[i]]],
                      LAMBDA e : e.copies > 0)]

NightListings(c) ==
  <<[exists |-> FALSE],
    NightListing(c, <<AtNinety(c), 0, 0, 0, 0>>),
    NightListing(c, <<AtNinety(c) - 1, 1, SmallCount, 0, 0>>),
    NightListing(c, <<0, AtNinety(c), AtNinety(c), AtNinety(c), 0>>),
    NightListing(c, <<0, AtNinety(c), 0, 0, 1>>),
    NightListing(c, <<1, 1, 1, 1, 0>>),
    NightListing(c, <<0, AtNinety(c), 0, SmallCount, 1>>)>>

\* a one-minute file holds twelve 5-second windows
WindowsPerFile == 12

NightAgile(c) ==
  <<[exists |-> FALSE],
    [exists |-> TRUE,
     folders |-> <<[name |-> <<"S", "n", "a", "p", "s">>, is_dir |-> TRUE,
                    csv |-> NightCsv(c, <<WindowsPerFile, WindowsPerFile, WindowsPerFile,
                                          WindowsPerFile, 0>>, 20)],
                   [name |-> <<"c", "r", "o", "a", "k">>, is_dir |-> TRUE,
                    csv |-> NightCsv(c, <<WindowsPerFile, WindowsPerFile, 3, 1, 0>>, 10)],
                   [name |-> <<"l", "o", "g">>, is_dir |-> FALSE],
                   [name |-> <<"h", "u", "m">>, is_dir |-> TRUE, csv |-> [exists |-> FALSE]],
                   [name |-> <<"g", "r", "u", "n", "t">>, is_dir |-> TRUE,
                    csv |-> NightCsv(c, <<0, WindowsPerFile, 0, 0, 0>>, 15)]>>],
    [exists |-> TRUE,
     folders |-> <<[name |-> <<"c", "r", "o", "a", "k">>, is_dir |-> TRUE,
                    csv |-> NightCsv(c, <<1, 2, 0, 1, 0>>, 10)],
                   [name |-> <<"g", "r", "u", "n", "t">>, is_dir |-> TRUE,
                    csv |-> NightCsv(c, <<WindowsPerFile, WindowsPerFile, 0, 0, 0>>, 9)]>>]>>

\* sunrise and sunset, in seconds of the local day, as astral may give them at
\* the study's latitudes
SunTimes ==
  {[sunrise |-> 5 * 3600 + 1800, sunset |-> 18 * 3600 + 2700],
   [sunrise |-> 6 * 3600 + 2700, sunset |-> 17 * 3600 + 1800]}

notNightVars == <<parseVars, timeVars, expVars, runVars, valid_sets, mainVars, kernelVars, richVars, aggregVars, renameVars, shiftVars, monoVars, shannonVars, rerunVars>>

NotNightIdle ==
  /\ ParseIdle
  /\ TimeIdle
  /\ ExpIdle
  /\ RunIdle
  /\ valid_sets = <<>>
  /\ MainIdle
  /\ KernelIdle
  /\ RichIdle
  /\ AggregIdle
  /\ RenameIdle
  /\ ShiftIdle
  /\ MonoIdle
  /\ ShannonIdle
  /\ RerunIdle

InitNight ==
  /\ NotNightIdle
  /\ night_country \in DOMAIN COUNTRY_CONFIG
  /\ \E l \in DOMAIN NightListings(night_country), a \in DOMAIN NightAgile(night_country) :
       night_files = [raw_file_list |-> NightListings(night_country)[l],
                      agile |-> NightAgile(night_country)[a]]
  /\ sun_times \in SunTimes
  /\ df_total = <<>>
  /\ df_detect = <<>>
  /\ df_night = {}
  /\ night_log = {}
  /\ night_pc = "start"

\* df_total = gather_night_total_windows(country), and the return when it is empty
GatherNightTotalWindows ==
  /\ night_pc = "start"
  /\ \E r \in {gather_night_total_windows(night_country, night_files.raw_file_list, sun_times)} :
       IF r.raised
       THEN /\ night_pc' = "raised"
            /\ night_log' = night_log \cup r.log
            /\ UNCHANGED df_total
       ELSE /\ df_total' = r.val.df
            /\ night_log' = night_log \cup r.val.log
            /\ night_pc' = IF r.val.df = <<>> THEN "returned" ELSE "totals"
  /\ UNCHANGED <<notNightVars, night_country, night_files, sun_times, df_detect, df_night>>

\* df_detect = gather_night_inferences(country)
GatherNightInferences ==
  /\ night_pc = "totals"
  /\ \E r \in {gather_night_inferences(night_country, night_files.agile, sun_times)} :
       IF r.raised
       THEN /\ night_pc' = "raised"
            /\ UNCHANGED <<df_detect, night_log>>
       ELSE /\ df_detect' = r.val.df
            /\ night_log' = night_log \cup r.val.log
            /\ night_pc' = "detections"
  /\ UNCHANGED <<notNightVars, night_country, night_files, sun_times, df_total, df_night>>

\* the sums, the merge, the proportion and the return
MergeNightProportion ==
  /\ night_pc = "detections"
  /\ df_night' = night_proportion(df_total, df_detect)
  /\ night_pc' = "returned"
  /\ UNCHANGED <<notNightVars, night_country, night_files, sun_times, df_total, df_detect,
                 night_log>>

NextNight == GatherNightTotalWindows \/ GatherNightInferences \/ MergeNightProportion

SpecNight == InitNight /\ [][NextNight]_vars

(***************************************************************************)
(* Claims on the night-time table (SpecNight), stated on the recordings    *)
(* the files were made of                                                  *)
(***************************************************************************)
RECURSIVE NightPairCountIn(_, _, _)
\* the rows of the listing whose file was captured at the site on the day
NightPairCountIn(S, site, day) ==
  IF S = {} THEN 0
  ELSE LET i == CHOOSE x \in S : TRUE
       IN  (IF NightRecordings[i].site = site /\ ReadsAsDay(day, NightRecordings[i].capture)
            THEN CopiesOf(night_files.raw_file_list.rows, NightName(night_country, i))
            ELSE 0) + NightPairCountIn(S \ {i}, site, day)

\* the (site, day) pair has at least 90% of the expected daily count in the listing
NightPairCovered(site, day) ==
  /\ night_files.raw_file_list.exists
  /\ 10 * NightPairCountIn(DOMAIN NightRecordings, site, day) >= 9 * ExpectedIn(night_country)

\* C22: every row (country, site, date) of the night-time proportion table is of a
\* (site, date) pair that passed the daily 90% coverage check, also when the date
\* is the night of the previous day.
C22_NightRowsCovered ==
  \A r \in df_night : NightPairCovered(r.site, r.date)

\* C28: proportion_night_detections of every output row lies between 0 and 1: the
\* detected 5-second windows counted for a (site, night) never exceed the recorded
\* ones, 12 per coverage-valid one-minute file that starts in the night.
C28_ProportionWithinUnit ==
  \A r \in df_night :
    /\ 0 <= r.proportion_night_detections.num
    /\ r.proportion_night_detections.num <= r.proportion_night_detections.den

(***************************************************************************)
(* Claim on the counts of combine_counts (Spec)                            *)
(***************************************************************************)
\* recording i is of the combination of the output row r
IsOfCombination(i, r) ==
  /\ Recordings[i].site = r.site
  /\ Recordings[i].treatment = r.treatment
  /\ ReadsAsDay(r.date, TrueGroup(i).day)

RECURSIVE DetectionsIn(_, _)
\* the inference rows at or above 1.0 of the recordings in S that are of r's combination
DetectionsIn(S, r) ==
  IF S = {} THEN 0
  ELSE LET i == CHOOSE x \in S : TRUE
       IN  (IF IsOfCombination(i, r) /\ InferLogit[i] >= 10 /\ inference_csv.exists
            THEN CopiesOf(inference_csv.rows, NameOf(country_arg, Recordings[i]))
            ELSE 0) + DetectionsIn(S \ {i}, r)

\* C23: the count of every row of the merged table is the number of inference rows
\* of the sound with logit >= 1.0 (1.0 included) of its combination, times the
\* region's duty cycle; rows below the cutoff add nothing.
C23_CountIsDetectionsTimesDuty ==
  pc = "returned" =>
    \A r \in Rows(df_merged) :
      r.count = DetectionsIn(DOMAIN Recordings, r) * COUNTRY_CONFIG[country_arg].duty_cycle

\* a returned row counts rows at exactly 1.0 while a row at 0.9 of the same
\* combination is in the inference table
C23_Witness ==
  /\ pc = "returned"
  /\ \E r \in Rows(df_merged) :
       /\ r.count = MaxInferCopies * COUNTRY_CONFIG[country_arg].duty_cycle
       /\ \E i \in DOMAIN Recordings :
            /\ IsOfCombination(i, r) /\ InferLogit[i] = 10
            /\ CopiesOf(inference_csv.rows, NameOf(country_arg, Recordings[i])) > 0
       /\ \E j \in DOMAIN Recordings :
            /\ IsOfCombination(j, r) /\ InferLogit[j] < 10
            /\ CopiesOf(inference_csv.rows, NameOf(country_arg, Recordings[j])) > 0

(***************************************************************************)
(* count_ecofunctions.load_raw_file_list, written from section 4.2 of the  *)
(* specification: the combinations of the (site, day) pairs with coverage  *)
(***************************************************************************)
RECURSIVE derived_records(_, _)
\* one derived record per listing row; a row whose filename does not parse is skipped
derived_records(rows, country) ==
  IF rows = <<>> THEN <<>>
  ELSE Eval(StripDir(Head(rows).filename), LAMBDA filename_part :
         Eval(extract_date(filename_part, country), LAMBDA day :
           IF day.raised THEN derived_records(Tail(rows), country)
           ELSE <<[row |-> [country |-> country, site |-> extract_site(filename_part).val,
                            date |-> day.val,
                            treatment |-> extract_treatment(filename_part).val],
                   copies |-> Head(rows).copies]>> \o derived_records(Tail(rows), country)))

\* the (site, day) keys with observed_count >= coverage_threshold * floor(1440 / duty cycle)
compute_valid_days(records, duty_cycle_minutes, coverage_threshold) ==
  LET counts == groupby_site_date(records)
  IN  {k \in DOMAIN counts :
         counts[k] * coverage_threshold.den
           >= coverage_threshold.num * (1440 \div duty_cycle_minutes)}

\* the distinct (country, site, date, treatment) rows of the valid days; a missing
\* listing gives none and a warning, a region without configuration is an error
valid_combinations(country, csv) ==
  IF country \notin DOMAIN COUNTRY_CONFIG THEN Raise("ConfigurationError")
  ELSE IF ~csv.exists
  THEN Ret([df |-> {},
            log |-> {[level |-> "warning", what |-> "no raw_file_list", country |-> country]}])
  ELSE Eval(FrameOf(derived_records(csv.rows, country)), LAMBDA records :
         Eval(compute_valid_days(records, COUNTRY_CONFIG[country].duty_cycle, FILE_COVERAGE),
              LAMBDA valid :
                Ret([df |-> {r \in Rows(records) : [site |-> r.site, date |-> r.date] \in valid},
                     log |-> {}])))

(***************************************************************************)
(* phonic_richness.py: the number of sounds present per combination        *)
(***************************************************************************)
SNAP == <<"s", "n", "a", "p">>

RECURSIVE sound_rows(_, _, _)
\* the row loop of gather_sound_presence: (country, site, date, treatment, sound)
sound_rows(df_infer, country, sound_folder) ==
  IF df_infer = <<>> THEN Ret(<<>>)
  ELSE Eval(StripDir(Head(df_infer).filename), LAMBDA filename_part :
         Eval(extract_date(filename_part, country), LAMBDA date_str :
           IF date_str.raised THEN date_str
           ELSE Eval(sound_rows(Tail(df_infer), country, sound_folder), LAMBDA rest :
                  IF rest.raised THEN rest
                  ELSE Ret(<<[row |-> [country |-> country,
                                       site |-> extract_site(filename_part).val,
                                       date |-> date_str.val,
                                       treatment |-> extract_treatment(filename_part).val,
                                       sound |-> sound_folder],
                              copies |-> Head(df_infer).copies]>> \o rest.val))))

RECURSIVE presence_folders(_, _, _)
\* the folder loop of gather_sound_presence
presence_folders(folders, country, logit_cutoff) ==
  IF folders = <<>> THEN Ret(<<>>)
  ELSE LET f == Head(folders)
       IN  IF ~f.is_dir \/ lower(f.name) = SNAP \/ ~f.csv.exists
           THEN presence_folders(Tail(folders), country, logit_cutoff)
           ELSE Eval(sound_rows(SelectSeq(f.csv.rows, LAMBDA e : e.logit >= logit_cutoff),
                                country, f.name), LAMBDA mine :
                  IF mine.raised THEN mine
                  ELSE Eval(presence_folders(Tail(folders), country, logit_cutoff), LAMBDA rest :
                         IF rest.raised THEN rest ELSE Ret(mine.val \o rest.val)))

\* gather_sound_presence: one row per detection of a sound other than snap
gather_sound_presence(country, logit_cutoff, agile) ==
  IF ~agile.exists
  THEN Ret([df |-> <<>>,
            log |-> {[level |-> "warning", what |-> "no agile_outputs", country |-> country]}])
  ELSE Eval(presence_folders(agile.folders, country, logit_cutoff), LAMBDA rows :
         IF rows.raised THEN rows ELSE Ret([df |-> FrameOf(rows.val), log |-> {}]))

\* the presence rows counted in place of the distinct sounds
count_unique_sounds_mut(presence) ==
  LET keys == {KeyOf(r) : r \in Rows(presence)}
  IN  [k \in keys |-> SizeOf(presence, {r \in Rows(presence) : KeyOf(r) = k})]

\* df_presence.groupby([country, site, date, treatment])["sound"].nunique()
count_unique_sounds(presence) ==
  LET keys == {KeyOf(r) : r \in Rows(presence)}
  IN  [k \in keys |-> Cardinality({r.sound : r \in {x \in Rows(presence) : KeyOf(x) = k}})]

\* the left merge on the coverage combinations and the fill with 0
merge_richness(coverage, presence_count) ==
  {[country |-> k.country, site |-> k.site, date |-> k.date, treatment |-> k.treatment,
    count |-> IF k \in DOMAIN presence_count THEN presence_count[k] ELSE 0] : k \in coverage}

(***************************************************************************)
(* SpecRichness: process_country_phonic_richness on one region             *)
(***************************************************************************)
\* the logits, in tenths, each sound folder's csv gives the four recordings
SoundLogits ==
  [croak |-> <<10, 9, 20, 15>>, grunt |-> <<20, 9, 9, 9>>, snap |-> <<20, 20, 20, 20>>]

\* agile_outputs: a folder named snap in capitals, two sounds, one of them also in
\* other letter case, a stray file and a folder without its csv
RichAgile(c) ==
  <<[exists |-> FALSE],
    [exists |-> TRUE,
     folders |-> <<[name |-> <<"S", "N", "A", "P">>, is_dir |-> TRUE,
                    csv |-> InferenceOf(c, SoundLogits.snap)],
                   [name |-> <<"c", "r", "o", "a", "k">>, is_dir |-> TRUE,
                    csv |-> InferenceOf(c, SoundLogits.croak)],
                   [name |-> <<"g", "r", "u", "n", "t">>, is_dir |-> TRUE,
                    csv |-> InferenceOf(c, SoundLogits.grunt)],
                   [name |-> <<"l", "o", "g">>, is_dir |-> FALSE],
                   [name |-> <<"h", "u", "m">>, is_dir |-> TRUE, csv |-> [exists |-> FALSE]]>>],
    [exists |-> TRUE,
     folders |-> <<[name |-> <<"s", "n", "a", "p">>, is_dir |-> TRUE,
                    csv |-> InferenceOf(c, SoundLogits.snap)],
                   [name |-> <<"g", "r", "u", "n", "t">>, is_dir |-> TRUE,
                    csv |-> InferenceOf(c, SoundLogits.grunt)]>>]>>

RichListings(c) ==
  <<[exists |-> FALSE],
    ListingOf(c, <<AtNinety(c), 0, AtNinety(c)>>),
    ListingOf(c, <<AtNinety(c) - SmallCount, SmallCount, AtNinety(c) - 1>>),
    ListingOf(c, <<AtNinety(c), AtNinety(c), AtNinety(c)>>),
    ListingOf(c, <<SmallCount, 0, SmallCount>>)>>

notRichVars == <<parseVars, timeVars, expVars, runVars, valid_sets, mainVars, kernelVars, nightVars, aggregVars, renameVars, shiftVars, monoVars, shannonVars, rerunVars>>

NotRichIdle ==
  /\ ParseIdle
  /\ TimeIdle
  /\ ExpIdle
  /\ RunIdle
  /\ valid_sets = <<>>
  /\ MainIdle
  /\ KernelIdle
  /\ NightIdle
  /\ AggregIdle
  /\ RenameIdle
  /\ ShiftIdle
  /\ MonoIdle
  /\ ShannonIdle
  /\ RerunIdle

InitRichness ==
  /\ NotRichIdle
  /\ rich_country \in DOMAIN COUNTRY_CONFIG
  /\ \E l \in 1..5, a \in 1..3 :
       rich_files = [raw_file_list |-> RichListings(rich_country)[l],
                     agile |-> RichAgile(rich_country)[a]]
  /\ df_coverage = {}
  /\ df_presence = <<>>
  /\ df_rich = {}
  /\ rich_log = {}
  /\ rich_pc = "start"

\* df_coverage = load_raw_file_list(country)
LoadCoverage ==
  /\ rich_pc = "start"
  /\ \E r \in {valid_combinations(rich_country, rich_files.raw_file_list)} :
       IF r.raised
       THEN /\ rich_pc' = "raised"
            /\ UNCHANGED <<df_coverage, rich_log>>
       ELSE /\ df_coverage' = r.val.df
            /\ rich_log' = rich_log \cup r.val.log
            /\ rich_pc' = "coverage"
  /\ UNCHANGED <<notRichVars, rich_country, rich_files, df_presence, df_rich>>

\* df_presence = gather_sound_presence(country, logit_cutoff)
GatherSoundPresence ==
  /\ rich_pc = "coverage"
  /\ \E r \in {gather_sound_presence(rich_country, LOGIT_CUTOFF, rich_files.agile)} :
       IF r.raised
       THEN /\ rich_pc' = "raised"
            /\ UNCHANGED <<df_presence, rich_log>>
       ELSE /\ df_presence' = r.val.df
            /\ rich_log' = rich_log \cup r.val.log
            /\ rich_pc' = "presence"
  /\ UNCHANGED <<notRichVars, rich_country, rich_files, df_coverage, df_rich>>

\* the unique sounds per combination, the left merge, the fill and the return
MergeRichness ==
  /\ rich_pc = "presence"
  /\ df_rich' = merge_richness(df_coverage, count_unique_sounds(df_presence))
  /\ rich_pc' = "returned"
  /\ UNCHANGED <<notRichVars, rich_country, rich_files, df_coverage, df_presence, rich_log>>

NextRichness == LoadCoverage \/ GatherSoundPresence \/ MergeRichness

SpecRichness == InitRichness /\ [][NextRichness]_vars

(***************************************************************************)
(* Claim on phonic richness (SpecRichness), stated on the recordings the   *)
(* files were made of                                                      *)
(***************************************************************************)
\* the sound folders of agile_outputs other than one named snap in any letter case
SoundFolders ==
  IF ~rich_files.agile.exists THEN {}
  ELSE {k \in DOMAIN rich_files.agile.folders :
          /\ rich_files.agile.folders[k].is_dir
          /\ Len(rich_files.agile.folders[k].name) = 4
               => \E j \in 1..4 : rich_files.agile.folders[k].name[j]
                                    \notin {SNAP[j], <<"S", "N", "A", "P">>[j]}}

\* recording i is of the site, treatment and local day of row r
IsOfRow(i, r) ==
  /\ Recordings[i].site = r.site
  /\ Recordings[i].treatment = r.treatment
  /\ ReadsAsDay(r.date, LocalInstant(rich_country, i))

\* folder k has an inference row at or above 1.0 for the combination of row r
HeardIn(k, r) ==
  LET f == rich_files.agile.folders[k]
  IN  /\ f.csv.exists
      /\ \E n \in DOMAIN f.csv.rows, i \in DOMAIN Recordings :
           /\ f.csv.rows[n].filename = NameOf(rich_country, Recordings[i])
           /\ f.csv.rows[n].logit >= 10
           /\ IsOfRow(i, r)

\* C24: phonic richness of a coverage-valid combination is the number of distinct
\* sound folders, other than snap in any letter case, with at least one inference
\* row at or above the cutoff for it: repeated detections of a sound count once and
\* the value never exceeds the number of such folders.
C24_RichnessIsDistinctSounds ==
  rich_pc = "returned" =>
    \A r \in df_rich :
      /\ r.count = Cardinality({k \in SoundFolders : HeardIn(k, r)})
      /\ r.count <= Cardinality(SoundFolders)

\* a returned row with two sounds present, one of them detected more than once, next
\* to a snap folder that detected the same combination
C24_Witness ==
  /\ rich_pc = "returned"
  /\ \E r \in df_rich :
       /\ r.count = 2
       /\ \E k \in {x \in SoundFolders : rich_files.agile.folders[x].csv.exists} :
          \E n \in DOMAIN rich_files.agile.folders[k].csv.rows :
            /\ HeardIn(k, r)
            /\ rich_files.agile.folders[k].csv.rows[n].copies > 1
            /\ rich_files.agile.folders[k].csv.rows[n].logit >= 10
            /\ \E i \in DOMAIN Recordings :
                 /\ IsOfRow(i, r)
                 /\ rich_files.agile.folders[k].csv.rows[n].filename
                      = NameOf(rich_country, Recordings[i])
       /\ \E k \in DOMAIN rich_files.agile.folders :
            k \notin SoundFolders /\ rich_files.agile.folders[k].is_dir /\ HeardIn(k, r)

(***************************************************************************)
(* temporal_overlap_aggreg.py: one aggregated kernel plot per sound that   *)
(* has enough detections in the treatments of a group                      *)
(***************************************************************************)
GROUP1 == <<"healthy", "degraded", "restored">>

GROUP2 == <<"healthy", "degraded", "newly_restored">>

RECURSIVE count_records(_, _)
\* counts.get(t, 0) of df_records.groupby("treatment").size().to_dict()
count_records(records, t) ==
  IF records = <<>> THEN 0
  ELSE (IF Head(records).row.treatment = t THEN Head(records).copies ELSE 0)
         + count_records(Tail(records), t)

\* more than 100 in place of at least 100
group_ok_mut(records, group) ==
  \A i \in DOMAIN group : count_records(records, group[i]) > 100

\* all(counts.get(t, 0) >= 100 for t in group)
group_ok(records, group) ==
  \A i \in DOMAIN group : count_records(records, group[i]) >= 100

\* treatments_to_plot: the union when both groups qualify
treatments_to_plot(group1_ok, group2_ok) ==
  IF group1_ok /\ group2_ok THEN TREATMENTS
  ELSE IF group1_ok THEN GROUP1
  ELSE GROUP2

RECURSIVE aggreg_sound_folders(_, _, _, _)
\* the "for sound_folder in os.listdir(agile_dir)" loop: the plot saved for each
\* sound folder, and the exception that ends the loop, if any
aggreg_sound_folders(folders, country, valid_pairs, zero_cov) ==
  IF folders = <<>> THEN [out |-> {}, exc |-> "none"]
  ELSE LET f == Head(folders)
       IN  IF ~f.is_dir \/ ~f.csv.exists
           THEN aggreg_sound_folders(Tail(folders), country, valid_pairs, zero_cov)
           ELSE Eval(SelectSeq(f.csv.rows, LAMBDA e : e.logit >= 10), LAMBDA df_infer :
                  IF df_infer = <<>>
                  THEN aggreg_sound_folders(Tail(folders), country, valid_pairs, zero_cov)
                  ELSE Eval(detection_records(df_infer, country, valid_pairs), LAMBDA records :
                         IF records.raised THEN [out |-> {}, exc |-> records.exc]
                         ELSE Eval(aggreg_sound_folders(Tail(folders), country, valid_pairs, zero_cov),
                                   LAMBDA rest :
                                IF records.val = <<>> THEN rest
                                ELSE Eval(<<group_ok(records.val, GROUP1),
                                            group_ok(records.val, GROUP2)>>, LAMBDA ok :
                                       IF ~ok[1] /\ ~ok[2] THEN rest
                                       ELSE Eval(treatments_to_plot(ok[1], ok[2]), LAMBDA plotted :
                                              [out |-> {[country |-> country, sound |-> f.name,
                                                         treatments |-> plotted,
                                                         kernels |-> [i \in DOMAIN plotted |->
                                                            kernel_times(records.val, plotted[i], zero_cov)]]}
                                                         \cup rest.out,
                                               exc |-> rest.exc])))))

\* process_sound_country of temporal_overlap_aggreg.py: nothing without the
\* agile_outputs directory
aggreg_process_sound_country(country, valid_pairs, agile, zero_cov) ==
  IF ~agile.exists
  THEN [out |-> {}, exc |-> "none",
        log |-> {[level |-> "warning", what |-> "no agile_outputs", country |-> country]}]
  ELSE Eval(aggreg_sound_folders(agile.folders, country, valid_pairs, zero_cov), LAMBDA r :
         [out |-> r.out, exc |-> r.exc, log |-> {}])

(***************************************************************************)
(* SpecAggreg: temporal_overlap_aggreg.main over the regions of            *)
(* COUNTRY_CONFIG                                                          *)
(***************************************************************************)
\* the recordings of a deployment with a site of every treatment, and a healthy site
\* that stays below 95% coverage
AggregRecordings ==
  Recordings \o
  <<[dir |-> <<>>, site |-> <<"N", "4">>, treatment |-> "newly_restored",
     capture |-> Instant(2023, 1, 1, 12, 0, 0)],
    [dir |-> <<>>, site |-> <<"H", "5">>, treatment |-> "healthy",
     capture |-> Instant(2023, 1, 1, 12, 0, 0)]>>

AggregName(c, i) == NameOf(c, AggregRecordings[i])

\* a listing with ks[i] rows for recording i
AggregListing(c, ks) ==
  [exists |-> TRUE,
   rows |-> SelectSeq([i \in DOMAIN AggregRecordings |->
                         [filename |-> AggregName(c, i), copies |-> ks[i]]],
                      LAMBDA e : e.copies > 0)]

\* the listings a region may come with: none; every site but H5 at 95%; the second
\* recording of D2 one short of 95%
AggregListings(c) ==
  <<[exists |-> FALSE],
    AggregListing(c, <<AtNinetyFive(c), AtNinetyFive(c), AtNinetyFive(c), AtNinetyFive(c),
                       AtNinetyFive(c), AtNinetyFive(c) - 1>>),
    AggregListing(c, <<AtNinetyFive(c), AtNinetyFive(c) - 1, AtNinetyFive(c), AtNinetyFive(c),
                       AtNinetyFive(c), AtNinetyFive(c) - 1>>)>>

\* the detection counts a treatment may have
DetectionCounts == {0, 99, 100}

\* an inference table with ns[i] rows at the cutoff for recording i, and one row
\* below the cutoff for every recording
AggregInference(c, ns) ==
  [exists |-> TRUE,
   rows |-> SelectSeq([i \in DOMAIN AggregRecordings |->
                         [filename |-> AggregName(c, i), logit |-> 10, copies |-> ns[i]]],
                      LAMBDA e : e.copies > 0)
            \o [i \in DOMAIN AggregRecordings |->
                  [filename |-> AggregName(c, i), logit |-> 9, copies |-> 1]]]

\* agile_outputs: a sound with the detections drawn, of which 40 of the degraded
\* ones are on the second recording of D2 and 100 on the site below 95%; a stray
\* file; a folder without its csv; a sound whose rows are all below the cutoff
AggregAgile(c, n) ==
  [exists |-> TRUE,
   folders |-> <<[name |-> "scrape", is_dir |-> TRUE,
                  csv |-> AggregInference(c, <<n.degraded, 40, n.healthy, n.restored,
                                               n.newly_restored, 100>>)],
                 [name |-> "notes.txt", is_dir |-> FALSE],
                 [name |-> "croak", is_dir |-> TRUE, csv |-> [exists |-> FALSE]],
                 [name |-> "hum", is_dir |-> TRUE,
                  csv |-> [exists |-> TRUE,
                           rows |-> [i \in DOMAIN AggregRecordings |->
                                       [filename |-> AggregName(c, i), logit |-> 9,
                                        copies |-> 100]]]]>>]

\* what temporal_overlap_aggreg.py does not touch
notAggregVars ==
  <<parseVars, timeVars, expVars, runVars, valid_sets, mainVars, kernelVars, nightVars,
    richVars, renameVars, shiftVars, monoVars, shannonVars, rerunVars>>

NotAggregIdle ==
  /\ ParseIdle
  /\ TimeIdle
  /\ ExpIdle
  /\ RunIdle
  /\ valid_sets = <<>>
  /\ MainIdle
  /\ KernelIdle
  /\ NightIdle
  /\ RichIdle
  /\ RenameIdle
  /\ ShiftIdle
  /\ MonoIdle
  /\ ShannonIdle
  /\ RerunIdle

InitAggreg ==
  /\ NotAggregIdle
  /\ \E l \in 1..3, n \in [{"healthy", "degraded", "restored", "newly_restored"}
                             -> DetectionCounts] :
       aggreg_files = [c \in DOMAIN COUNTRY_CONFIG |->
                         [raw_file_list |-> AggregListings(c)[l],
                          agile |-> AggregAgile(c, n)]]
  /\ aggreg_countries = <<>>
  /\ aggreg_plots = {}
  /\ aggreg_log = {}
  /\ aggreg_pc = "start"

\* main up to the loop: "for country in COUNTRY_CONFIG.keys()"
AggregMainStart ==
  /\ aggreg_pc = "start"
  /\ aggreg_countries' = COUNTRIES
  /\ aggreg_pc' = "loop"
  /\ UNCHANGED <<notAggregVars, aggreg_files, aggreg_plots, aggreg_log>>

\* one turn of main's loop: the valid pairs of the region (get_valid_site_dates is
\* the function of temporal_overlap.py, line for line), then its sounds
AggregProcessCountry ==
  /\ aggreg_pc = "loop"
  /\ aggreg_countries # <<>>
  /\ LET country == Head(aggreg_countries)
         more == IF Tail(aggreg_countries) = <<>> THEN "done" ELSE "loop"
     IN  \E valid \in {get_valid_site_dates(country, COVERAGE_THRESHOLD,
                                            aggreg_files[country].raw_file_list)} :
           IF valid.raised
           THEN /\ aggreg_pc' = "raised"
                /\ UNCHANGED <<aggreg_countries, aggreg_plots, aggreg_log>>
           ELSE IF valid.val.pairs = {}
           THEN /\ aggreg_log' = aggreg_log \cup valid.val.log \cup
                                   {[level |-> "info", what |-> "skipping", country |-> country]}
                /\ aggreg_countries' = Tail(aggreg_countries)
                /\ aggreg_pc' = more
                /\ UNCHANGED aggreg_plots
           ELSE \E zero_cov \in SUBSET rounding_decides(
                                   aggreg_process_sound_country(country, valid.val.pairs,
                                                                aggreg_files[country].agile,
                                                                {}).out) :
                \E r \in {aggreg_process_sound_country(country, valid.val.pairs,
                                                       aggreg_files[country].agile, zero_cov)} :
                  /\ aggreg_plots' = aggreg_plots \cup r.out
                  /\ aggreg_log' = aggreg_log \cup valid.val.log \cup r.log
                  /\ IF r.exc = "none"
                     THEN /\ aggreg_countries' = Tail(aggreg_countries)
                          /\ aggreg_pc' = more
                     ELSE /\ aggreg_pc' = "raised"
                          /\ UNCHANGED aggreg_countries
  /\ UNCHANGED <<notAggregVars, aggreg_files>>

NextAggreg == AggregMainStart \/ AggregProcessCountry

SpecAggreg == InitAggreg /\ [][NextAggreg]_vars

(***************************************************************************)
(* Claim on the aggregated plots (SpecAggreg), stated on the recordings    *)
(* the files were made of                                                  *)
(***************************************************************************)
\* recordings i and j of region c belong to the same site and local day
AggregSamePair(c, i, j) ==
  LET a == CalShift(AggregRecordings[i].capture, COUNTRY_CONFIG[c].offset)
      b == CalShift(AggregRecordings[j].capture, COUNTRY_CONFIG[c].offset)
  IN  /\ AggregRecordings[i].site = AggregRecordings[j].site
      /\ a.year = b.year /\ a.month = b.month /\ a.day = b.day

RECURSIVE AggregPairCountIn(_, _, _, _)
AggregPairCountIn(S, rows, c, i) ==
  IF S = {} THEN 0
  ELSE LET j == CHOOSE x \in S : TRUE
       IN  (IF AggregSamePair(c, i, j) THEN CopiesOf(rows, AggregName(c, j)) ELSE 0)
             + AggregPairCountIn(S \ {j}, rows, c, i)

\* the pair of recording i has at least 95% of the expected daily count in the
\* listing of region c
AggregCovered(c, i) ==
  /\ aggreg_files[c].raw_file_list.exists
  /\ 100 * AggregPairCountIn(DOMAIN AggregRecordings, aggreg_files[c].raw_file_list.rows, c, i)
       >= 95 * ExpectedIn(c)

RECURSIVE ValidDetectionsIn(_, _, _, _)
\* the rows of an inference table at or above logit 1.0 whose recording is of
\* treatment t and of a covered pair
ValidDetectionsIn(rows, c, t, k) ==
  IF k = 0 THEN 0
  ELSE (IF /\ rows[k].logit >= 10
           /\ \E i \in DOMAIN AggregRecordings :
                /\ rows[k].filename = AggregName(c, i)
                /\ AggregRecordings[i].treatment = t
                /\ AggregCovered(c, i)
        THEN rows[k].copies ELSE 0)
         + ValidDetectionsIn(rows, c, t, k - 1)

\* the valid detections of treatment t that sound folder f of region c has
ValidDetections(c, f, t) ==
  IF f.is_dir /\ f.csv.exists THEN ValidDetectionsIn(f.csv.rows, c, t, Len(f.csv.rows)) ELSE 0

\* every treatment of the group has at least 100 valid detections
Qualifies(c, f, group) == \A i \in DOMAIN group : ValidDetections(c, f, group[i]) >= 100

\* the set of the treatments in a list
TreatmentsOf(list) == {list[i] : i \in DOMAIN list}

\* the folders of region c's agile_outputs
AggregFolders(c) ==
  IF aggreg_files[c].agile.exists
  THEN {aggreg_files[c].agile.folders[k] : k \in DOMAIN aggreg_files[c].agile.folders}
  ELSE {}

\* C25: a plot is saved for a sound exactly when it has at least 100 valid
\* detections in each of healthy, degraded, restored or in each of healthy,
\* degraded, newly_restored; the treatments plotted are those of the first group
\* when only it qualifies, of the second when only it qualifies, and all four when
\* both do.
C25_PlotIffGroupQualifies ==
  /\ \A p \in aggreg_plots :
       \E f \in AggregFolders(p.country) :
         /\ f.name = p.sound
         /\ Qualifies(p.country, f, GROUP1) \/ Qualifies(p.country, f, GROUP2)
         /\ TreatmentsOf(p.treatments) =
              (IF Qualifies(p.country, f, GROUP1) THEN TreatmentsOf(GROUP1) ELSE {})
                \cup (IF Qualifies(p.country, f, GROUP2) THEN TreatmentsOf(GROUP2) ELSE {})
  /\ aggreg_pc = "done" =>
       \A c \in DOMAIN COUNTRY_CONFIG : \A f \in AggregFolders(c) :
         Qualifies(c, f, GROUP1) \/ Qualifies(c, f, GROUP2) =>
           \E p \in aggreg_plots : p.country = c /\ p.sound = f.name

\* a finished run that saved a plot of the first group only in one region and, in
\* another, passed over the sound because its degraded detections reach 100 only
\* when those on a pair below 95% are counted
C25_Witness ==
  /\ aggreg_pc = "done"
  /\ \E p \in aggreg_plots : p.treatments = GROUP1
  /\ \E c \in DOMAIN COUNTRY_CONFIG :
       /\ ~\E p \in aggreg_plots : p.country = c
       /\ \E f \in AggregFolders(c) :
            /\ f.name = "scrape"
            /\ ValidDetections(c, f, "healthy") >= 100
            /\ ValidDetections(c, f, "restored") >= 100
            /\ ValidDetections(c, f, "degraded") < 100
            /\ f.csv.rows[1].copies + f.csv.rows[2].copies >= 100

(***************************************************************************)
(* The audio folder of the renaming scripts: a name holds a file or a      *)
(* directory, and each entry remembers the name it had when the script     *)
(* started; of a directory the folder knows whether it is empty, of a file *)
(* the field says nothing.  os.listdir returns the names in no particular order, so the   *)
(* loops visit the names of the listing in any order.                      *)
(***************************************************************************)
\* os.rename(src, dst) on POSIX: dst is replaced without a word when it is a file, or
\* an empty directory and src a directory; a directory that holds something is not
\* replaced (ENOTEMPTY)
os_rename(dir, src, dst) ==
  IF src \notin DOMAIN dir THEN Raise("FileNotFoundError")
  ELSE IF src = dst THEN Ret(dir)
  ELSE IF dst \in DOMAIN dir /\ ~dir[dst].is_file /\ dir[src].is_file
  THEN Raise("IsADirectoryError")
  ELSE IF dst \in DOMAIN dir /\ dir[dst].is_file /\ ~dir[src].is_file
  THEN Raise("NotADirectoryError")
  ELSE IF dst \in DOMAIN dir /\ ~dir[dst].is_file /\ ~dir[src].is_file /\ ~dir[dst].empty
  THEN Raise("OSError")
  ELSE Ret([n \in (DOMAIN dir \ {src}) \cup {dst} |-> IF n = dst THEN dir[src] ELSE dir[n]])

\* os.path.isfile
isfile(dir, name) == name \in DOMAIN dir /\ dir[name].is_file

\* os.path.exists
path_exists(dir, name) == name \in DOMAIN dir

\* str.upper() on ASCII text
upper(s) ==
  [i \in DOMAIN s |->
     IF \E k \in 1..26 : LOWERCASE[k] = s[i]
     THEN UPPERCASE[CHOOSE k \in 1..26 : LOWERCASE[k] = s[i]]
     ELSE s[i]]

\* str.endswith
endswith(s, suffix) ==
  Len(s) >= Len(suffix) /\ SubSeq(s, Len(s) - Len(suffix) + 1, Len(s)) = suffix

RECURSIVE join(_, _)
\* sep.join(parts)
join(sep, parts) ==
  IF parts = <<>> THEN <<>>
  ELSE IF Len(parts) = 1 THEN Head(parts)
  ELSE Head(parts) \o sep \o join(sep, Tail(parts))

(***************************************************************************)
(* helpers/mex_site_rename.py: rename_files                                *)
(***************************************************************************)
\* the second pass run before the first
rename_passes_mut ==
  <<[old |-> <<"R", "3">>, new |-> <<"R", "2">>], [old |-> <<"R", "2">>, new |-> <<"N", "1">>]>>

\* first pass: R2 becomes N1; second pass: R3 becomes R2
rename_passes ==
  <<[old |-> <<"R", "2">>, new |-> <<"N", "1">>], [old |-> <<"R", "3">>, new |-> <<"R", "2">>]>>

\* the body of either loop for one filename of the listing
rename_site(dir, filename, pass) ==
  IF ~isfile(dir, filename) \/ ~endswith(upper(filename), <<".", "W", "A", "V">>) THEN Ret(dir)
  ELSE Eval(Split(filename, "_"), LAMBDA parts :
         IF Len(parts) < 3 THEN Ret(dir)
         ELSE IF parts[2] = pass.old
         THEN os_rename(dir, filename, join(<<"_">>, [parts EXCEPT ![2] = pass.new]))
         ELSE Ret(dir))

(***************************************************************************)
(* SpecSiteRename: rename_files on a folder                                *)
(***************************************************************************)
\* a name of the folder: prefix_site_rest
SiteName(e) == e.prefix \o <<"_">> \o e.site \o <<"_">> \o e.rest

Noon == <<"2", "0", "2", "3", "0", "1", "0", "1", "_", "1", "2", "0", "0", "0", "0">>

Dusk == <<"2", "0", "2", "3", "0", "1", "0", "1", "_", "2", "0", "0", "0", "0", "0">>

\* what the folder may hold: recordings of R2, R3, N1 and R1 at the same time, a
\* recording of R2 with a lower-case extension, a text file of R2 and a directory
\* of R3
SiteEntries ==
  {[prefix |-> <<"m", "e", "x">>, site |-> <<"R", "2">>, rest |-> Noon \o <<".", "W", "A", "V">>,
    is_file |-> TRUE, audio |-> TRUE],
   [prefix |-> <<"m", "e", "x">>, site |-> <<"R", "3">>, rest |-> Noon \o <<".", "W", "A", "V">>,
    is_file |-> TRUE, audio |-> TRUE],
   [prefix |-> <<"m", "e", "x">>, site |-> <<"N", "1">>, rest |-> Noon \o <<".", "W", "A", "V">>,
    is_file |-> TRUE, audio |-> TRUE],
   [prefix |-> <<"m", "e", "x">>, site |-> <<"R", "1">>, rest |-> Noon \o <<".", "W", "A", "V">>,
    is_file |-> TRUE, audio |-> TRUE],
   [prefix |-> <<"m", "e", "x">>, site |-> <<"R", "2">>, rest |-> Dusk \o <<".", "w", "a", "v">>,
    is_file |-> TRUE, audio |-> TRUE],
   [prefix |-> <<"m", "e", "x">>, site |-> <<"R", "2">>, rest |-> Noon \o <<".", "t", "x", "t">>,
    is_file |-> TRUE, audio |-> FALSE],
   [prefix |-> <<"m", "e", "x">>, site |-> <<"R", "3">>, rest |-> Dusk \o <<".", "W", "A", "V">>,
    is_file |-> FALSE, audio |-> FALSE, empty |-> FALSE]}

\* the most entries a folder is drawn with
MaxFolder == 4

\* the folder holding the entries of S, each under the name it starts with
FolderOf(S, Name(_)) ==
  [n \in {Name(e) : e \in S} |->
     LET e == CHOOSE x \in S : Name(x) = n
     IN  [was |-> e, is_file |-> e.is_file, empty |-> e.is_file \/ e.empty]]

\* what the renaming scripts do not touch
notRenameVars ==
  <<parseVars, timeVars, expVars, runVars, valid_sets, mainVars, kernelVars, nightVars,
    richVars, aggregVars, shiftVars, monoVars, shannonVars, rerunVars>>

NotRenameIdle ==
  /\ ParseIdle
  /\ TimeIdle
  /\ ExpIdle
  /\ RunIdle
  /\ valid_sets = <<>>
  /\ MainIdle
  /\ KernelIdle
  /\ NightIdle
  /\ RichIdle
  /\ AggregIdle
  /\ ShiftIdle
  /\ MonoIdle
  /\ ShannonIdle
  /\ RerunIdle

InitSiteRename ==
  /\ NotRenameIdle
  /\ \E S \in SUBSET SiteEntries :
       /\ S # {}
       /\ Cardinality(S) <= MaxFolder
       /\ folder_before = FolderOf(S, SiteName)
  /\ folder = folder_before
  /\ listing = {}
  /\ rename_pc = [pass |-> 1, at |-> "listdir"]

\* "for filename in os.listdir(RAW_AUDIO_DIR)" of either pass: the listing is taken
SiteListdir ==
  /\ rename_pc \in {[pass |-> 1, at |-> "listdir"], [pass |-> 2, at |-> "listdir"]}
  /\ listing' = DOMAIN folder
  /\ rename_pc' = [rename_pc EXCEPT !.at = "loop"]
  /\ UNCHANGED <<notRenameVars, folder_before, folder>>

\* one turn of the loop of either pass
SiteRenameFile ==
  /\ rename_pc \in {[pass |-> 1, at |-> "loop"], [pass |-> 2, at |-> "loop"]}
  /\ \E filename \in listing :
       \E r \in {rename_site(folder, filename, rename_passes[rename_pc.pass])} :
         IF r.raised
         THEN /\ rename_pc' = [pass |-> rename_pc.pass, at |-> "raised"]
              /\ UNCHANGED <<folder, listing>>
         ELSE /\ folder' = r.val
              /\ listing' = listing \ {filename}
              /\ UNCHANGED rename_pc
  /\ UNCHANGED <<notRenameVars, folder_before>>

\* the listing is exhausted: the second pass follows the first, the function returns
\* after the second
SitePassDone ==
  /\ rename_pc \in {[pass |-> 1, at |-> "loop"], [pass |-> 2, at |-> "loop"]}
  /\ listing = {}
  /\ rename_pc' = IF rename_pc.pass = 1 THEN [pass |-> 2, at |-> "listdir"]
                  ELSE [pass |-> 2, at |-> "returned"]
  /\ UNCHANGED <<notRenameVars, folder_before, folder, listing>>

NextSiteRename == SiteListdir \/ SiteRenameFile \/ SitePassDone

SpecSiteRename == InitSiteRename /\ [][NextSiteRename]_vars

\* the names under which the entry that started as e is found
NamesOf(e) == {n \in DOMAIN folder : folder[n].was = e}

\* C27: when rename_files has returned, every recording that started with site code
\* R2 carries N1 and every recording that started with R3 carries R2, so none that
\* started with R3 carries N1; whatever started with another site code, or is not a
\* recording (not a regular file ending in .wav), and is still there has the name it
\* started with.
C27_TwoPassesInOrder ==
  rename_pc = [pass |-> 2, at |-> "returned"] =>
    \A n \in DOMAIN folder_before :
      LET e == folder_before[n].was
      IN  /\ e.audio /\ e.site = <<"R", "2">> =>
               NamesOf(e) = {SiteName([e EXCEPT !.site = <<"N", "1">>])}
          /\ e.audio /\ e.site = <<"R", "3">> =>
               /\ NamesOf(e) = {SiteName([e EXCEPT !.site = <<"R", "2">>])}
               /\ SiteName([e EXCEPT !.site = <<"N", "1">>]) \notin NamesOf(e)
          /\ e.site \notin {<<"R", "2">>, <<"R", "3">>} \/ ~e.audio => NamesOf(e) \subseteq {n}

\* rename_files has returned on a folder that held a recording of R2 and one of R3
\* made at the same time
C27_Witness ==
  /\ rename_pc = [pass |-> 2, at |-> "returned"]
  /\ \E n, m \in DOMAIN folder_before :
       /\ folder_before[n].was.audio /\ folder_before[n].was.site = <<"R", "2">>
       /\ folder_before[m].was.audio /\ folder_before[m].was.site = <<"R", "3">>
       /\ folder_before[n].was.rest = folder_before[m].was.rest
       /\ NamesOf(folder_before[m].was) = {n}

(***************************************************************************)
(* setup/prep_data/timezone_shift.py: adjust_timestamps                    *)
(***************************************************************************)
\* strftime("%Y%m%d_%H%M%S")
strftime_YmdHMS(dt) ==
  strftime_Ymd(dt) \o <<"_">> \o TwoDigits(dt.hour) \o TwoDigits(dt.minute)
    \o TwoDigits(dt.second)

\* the name adjust_timestamps gives a file: the timestamp of the third and fourth
\* fields moved by hours, the extension written ".wav"
adjusted_filename(filename, hours) ==
  Eval(Split(filename, "_"), LAMBDA parts :
    IF Len(parts) < 4 THEN Raise("IndexError")
    ELSE Eval(strptime(parts[3] \o <<"_">> \o Head(Split(parts[4], "."))),
              LAMBDA original_datetime :
           IF original_datetime.raised THEN original_datetime
           ELSE Eval(AddHours(original_datetime.val, hours), LAMBDA adjusted_datetime :
                  IF adjusted_datetime.raised THEN adjusted_datetime
                  ELSE Ret(parts[1] \o <<"_">> \o parts[2] \o <<"_">>
                             \o strftime_YmdHMS(adjusted_datetime.val)
                             \o <<".", "w", "a", "v">>))))

\* the body of the loop for one filename of files
adjust_file(dir, filename, hours) ==
  Eval(adjusted_filename(filename, hours), LAMBDA new_filename :
    IF new_filename.raised THEN new_filename
    ELSE os_rename(dir, filename, new_filename.val))

(***************************************************************************)
(* SpecTimezoneShift: adjust_timestamps on a folder                        *)
(***************************************************************************)
\* a name of the folder: prefix_site_timestamp and the extension
ShiftName(e) == e.prefix \o <<"_">> \o e.site \o <<"_">> \o EncodeInstant(e.capture) \o e.ext

\* what the folder may hold: recordings of R1 seven hours apart, one of them late
\* in the evening, a recording of R2, one with an upper-case extension, a text file
\* and three directories named like recordings seven hours apart, the last one empty
ShiftEntries ==
  {[prefix |-> <<"m", "e", "x">>, site |-> <<"R", "1">>, capture |-> Instant(2023, 1, 1, 3, 0, 0),
    ext |-> <<".", "w", "a", "v">>, is_file |-> TRUE, audio |-> TRUE],
   [prefix |-> <<"m", "e", "x">>, site |-> <<"R", "1">>, capture |-> Instant(2023, 1, 1, 10, 0, 0),
    ext |-> <<".", "w", "a", "v">>, is_file |-> TRUE, audio |-> TRUE],
   [prefix |-> <<"m", "e", "x">>, site |-> <<"R", "1">>, capture |-> Instant(2023, 1, 1, 17, 0, 0),
    ext |-> <<".", "w", "a", "v">>, is_file |-> TRUE, audio |-> TRUE],
   [prefix |-> <<"m", "e", "x">>, site |-> <<"R", "2">>, capture |-> Instant(2023, 1, 1, 10, 0, 0),
    ext |-> <<".", "w", "a", "v">>, is_file |-> TRUE, audio |-> TRUE],
   [prefix |-> <<"m", "e", "x">>, site |-> <<"R", "3">>, capture |-> Instant(2023, 1, 1, 22, 30, 0),
    ext |-> <<".", "W", "A", "V">>, is_file |-> TRUE, audio |-> TRUE],
   [prefix |-> <<"m", "e", "x">>, site |-> <<"R", "1">>, capture |-> Instant(2023, 1, 1, 3, 0, 0),
    ext |-> <<".", "t", "x", "t">>, is_file |-> TRUE, audio |-> FALSE],
   [prefix |-> <<"m", "e", "x">>, site |-> <<"R", "4">>, capture |-> Instant(2023, 1, 1, 3, 0, 0),
    ext |-> <<".", "w", "a", "v">>, is_file |-> FALSE, audio |-> FALSE, empty |-> FALSE],
   [prefix |-> <<"m", "e", "x">>, site |-> <<"R", "4">>, capture |-> Instant(2023, 1, 1, 10, 0, 0),
    ext |-> <<".", "w", "a", "v">>, is_file |-> FALSE, audio |-> FALSE, empty |-> FALSE],
   [prefix |-> <<"m", "e", "x">>, site |-> <<"R", "4">>, capture |-> Instant(2023, 1, 1, 17, 0, 0),
    ext |-> <<".", "w", "a", "v">>, is_file |-> FALSE, audio |-> FALSE, empty |-> TRUE]}

\* TIME_DIFF, and the same number of hours the other way
TimeDiffs == {-7, 7}

\* what adjust_timestamps does not touch
notShiftVars ==
  <<parseVars, timeVars, expVars, runVars, valid_sets, mainVars, kernelVars, nightVars,
    richVars, aggregVars, monoVars, shannonVars, rerunVars>>

NotShiftIdle ==
  /\ ParseIdle
  /\ TimeIdle
  /\ ExpIdle
  /\ RunIdle
  /\ valid_sets = <<>>
  /\ MainIdle
  /\ KernelIdle
  /\ NightIdle
  /\ RichIdle
  /\ AggregIdle
  /\ MonoIdle
  /\ ShannonIdle
  /\ RerunIdle

InitTimezoneShift ==
  /\ NotShiftIdle
  /\ \E S \in SUBSET ShiftEntries :
       /\ S # {}
       /\ Cardinality(S) <= MaxFolder
       /\ folder_before = FolderOf(S, ShiftName)
  /\ time_diff \in TimeDiffs
  /\ folder = folder_before
  /\ listing = {}
  /\ rename_pc = "listdir"

\* files = [f for f in os.listdir(directory) if f.lower().endswith(".wav")]
ShiftListdir ==
  /\ rename_pc = "listdir"
  /\ listing' = {f \in DOMAIN folder : endswith(lower(f), <<".", "w", "a", "v">>)}
  /\ rename_pc' = "loop"
  /\ UNCHANGED <<notShiftVars, folder_before, folder, time_diff>>

\* one turn of "for filename in tqdm(files)"
ShiftFile ==
  /\ rename_pc = "loop"
  /\ \E filename \in listing :
       \E r \in {adjust_file(folder, filename, time_diff)} :
         IF r.raised
         THEN /\ rename_pc' = "raised"
              /\ UNCHANGED <<folder, listing>>
         ELSE /\ folder' = r.val
              /\ listing' = listing \ {filename}
              /\ UNCHANGED rename_pc
  /\ UNCHANGED <<notShiftVars, folder_before, time_diff>>

\* files is exhausted and adjust_timestamps returns
ShiftReturn ==
  /\ rename_pc = "loop"
  /\ listing = {}
  /\ rename_pc' = "returned"
  /\ UNCHANGED <<notShiftVars, folder_before, folder, listing, time_diff>>

NextTimezoneShift == ShiftListdir \/ ShiftFile \/ ShiftReturn

SpecTimezoneShift == InitTimezoneShift /\ [][NextTimezoneShift]_vars

\* the recordings among the entries of a folder
RecordingsIn(dir) == {n \in DOMAIN dir : dir[n].was.audio}

\* the name of entry e with its timestamp moved by hours, once
ShiftedOnce(e, hours) ==
  ShiftName([e EXCEPT !.capture = CalShift(e.capture, hours), !.ext = <<".", "w", "a", "v">>])

\* C29: adjust_timestamps loses no recording: a name the loop has still to visit
\* holds the recording it held at the start, and when the function has returned
\* the folder holds as many recordings as before, each under the name with its
\* timestamp moved by time_diff hours once.
C29_NoRecordingLost ==
  /\ rename_pc = "loop" =>
       \A n \in listing : n \in DOMAIN folder /\ folder[n] = folder_before[n]
  /\ rename_pc = "returned" =>
       /\ Cardinality(RecordingsIn(folder)) = Cardinality(RecordingsIn(folder_before))
       /\ \A n \in RecordingsIn(folder_before) :
            NamesOf(folder_before[n].was) = {ShiftedOnce(folder_before[n].was, time_diff)}

(***************************************************************************)
(* helpers/fix_timestamp.py: correct_timestamp and main                    *)
(*                                                                         *)
(* datetime.strptime(s, "%Y%m%d%H%M%S") is the regular expression of       *)
(* strptime above without the "_" between day and hour.                    *)
(***************************************************************************)
RECURSIVE MatchCompact(_, _, _)
RECURSIVE TryCompact(_, _, _, _)
\* the first match of fields k..7 starting at pos, field 4 (the "_") left out
MatchCompact(s, pos, k) ==
  IF k > 7 THEN [ok |-> TRUE, vals |-> <<>>, end |-> pos]
  ELSE IF k = 4
  THEN Eval(MatchCompact(s, pos, 5), LAMBDA rest :
         IF rest.ok THEN [rest EXCEPT !.vals = <<0>> \o rest.vals] ELSE rest)
  ELSE TryCompact(s, pos, k, FieldAlts(s, pos, k))

TryCompact(s, pos, k, alts) ==
  IF alts = <<>> THEN [ok |-> FALSE]
  ELSE Eval(MatchCompact(s, pos + Head(alts).w, k + 1), LAMBDA rest :
         IF rest.ok
         THEN [ok |-> TRUE, vals |-> <<Head(alts).v>> \o rest.vals, end |-> rest.end]
         ELSE TryCompact(s, pos, k, Tail(alts)))

\* datetime.strptime(f"{date_str}{time_str}", "%Y%m%d%H%M%S")
strptime_compact(dt_str) ==
  Eval(MatchCompact(dt_str, 0, 1), LAMBDA m :
    IF ~m.ok THEN Raise("ValueError")
    ELSE IF m.end # Len(dt_str) THEN Raise("ValueError")
    ELSE IF m.vals[1] < MINYEAR THEN Raise("ValueError")
    ELSE IF m.vals[3] > DaysInMonth(m.vals[1], m.vals[2]) THEN Raise("ValueError")
    ELSE IF m.vals[7] > 59 THEN Raise("ValueError")
    ELSE Ret([year |-> m.vals[1], month |-> m.vals[2], day |-> m.vals[3],
              hour |-> m.vals[5], minute |-> m.vals[6], second |-> m.vals[7]]))

\* COUNTRY_CONFIG of fix_timestamp.py
FIX_COUNTRY_CONFIG ==
  ("australia" :> [offset |-> -10]) @@ ("kenya" :> [offset |-> -3]) @@
  ("maldives" :> [offset |-> -4]) @@ ("mexico" :> [offset |-> 7])

SHORT_CODES ==
  (<<"a", "u", "s">> :> "australia") @@ (<<"k", "e", "n">> :> "kenya") @@
  (<<"m", "a", "l">> :> "maldives") @@ (<<"m", "e", "x">> :> "mexico")

\* os.path.splitext on a name without directories: the extension starts at the last
\* dot, unless only dots come before it
splitext(filename) ==
  LET dots == {i \in 1..Len(filename) : filename[i] = "."}
      last == IF dots = {} THEN 0 ELSE CHOOSE i \in dots : \A j \in dots : j <= i
  IN  IF last = 0 \/ \A j \in 1..(last - 1) : filename[j] = "."
      THEN [root |-> filename, ext |-> <<>>]
      ELSE [root |-> SubSeq(filename, 1, last - 1), ext |-> SubSeq(filename, last, Len(filename))]

\* correct_timestamp: the name with its timestamp moved by minus the region's offset,
\* or the name itself when it cannot be read
correct_timestamp(filename) ==
  Eval(splitext(filename), LAMBDA split :
    Eval(Split(split.root, "_"), LAMBDA parts :
      IF Len(parts) # 4 THEN Ret(filename)
      ELSE IF lower(parts[1]) \notin DOMAIN SHORT_CODES THEN Ret(filename)
      ELSE Eval(strptime_compact(parts[3] \o parts[4]), LAMBDA dt_original :
             IF dt_original.raised THEN Ret(filename)
             ELSE Eval(AddHours(dt_original.val,
                                0 - FIX_COUNTRY_CONFIG[SHORT_CODES[lower(parts[1])]].offset),
                       LAMBDA dt_new :
                    IF dt_new.raised THEN dt_new
                    ELSE Ret(parts[1] \o <<"_">> \o parts[2] \o <<"_">>
                               \o strftime_YmdHMS(dt_new.val) \o split.ext)))))

\* the corrected name taken as it is, whether or not it is free
unique_fname_mut(dir, new_fname, candidate, counter) == new_fname

RECURSIVE unique_fname(_, _, _, _)
\* the "while os.path.exists(new_path)" loop: the first of new_fname, new_fname with
\* _1, with _2, ... that is not in the folder
unique_fname(dir, new_fname, candidate, counter) ==
  IF ~path_exists(dir, candidate) THEN candidate
  ELSE unique_fname(dir, new_fname,
                    splitext(new_fname).root \o <<"_">> \o Decimal(counter)
                      \o splitext(new_fname).ext,
                    counter + 1)

\* the body of main's loop for one name of the listing
fix_file(dir, fname) ==
  IF ~endswith(lower(fname), <<".", "w", "a", "v">>) THEN Ret(dir)
  ELSE Eval(correct_timestamp(fname), LAMBDA new_fname :
         IF new_fname.raised THEN new_fname
         ELSE IF new_fname.val = fname THEN Ret(dir)
         ELSE os_rename(dir, fname, unique_fname(dir, new_fname.val, new_fname.val, 1)))

\* pattern.match(f) of finalise_filenames: the regular expression
\* ^([^_]+_[^_]+_\d{8}_\d{6})(?:_(\d+))?(\.wav)$ read without regard to case; the
\* groups base, counter and ext of a name that matches
pattern_match(f) ==
  IF Len(f) < 4 \/ lower(SubSeq(f, Len(f) - 3, Len(f))) # <<".", "w", "a", "v">>
  THEN [matched |-> FALSE]
  ELSE Eval(Split(SubSeq(f, 1, Len(f) - 4), "_"), LAMBDA parts :
         IF /\ Len(parts) \in {4, 5}
            /\ parts[1] # <<>>
            /\ parts[2] # <<>>
            /\ Len(parts[3]) = 8 /\ DigitsAt(parts[3], 0, 8)
            /\ Len(parts[4]) = 6 /\ DigitsAt(parts[4], 0, 6)
            /\ Len(parts) = 5 => parts[5] # <<>> /\ DigitsAt(parts[5], 0, Len(parts[5]))
         THEN [matched |-> TRUE,
               base |-> parts[1] \o <<"_">> \o parts[2] \o <<"_">> \o parts[3] \o <<"_">>
                          \o parts[4],
               counter |-> IF Len(parts) = 5 THEN parts[5] ELSE <<>>,
               ext |-> SubSeq(f, Len(f) - 3, Len(f))]
         ELSE [matched |-> FALSE])

\* the names of files that finalise_filenames puts in groups: those ending in .wav
\* that match the pattern
grouped_names(names) ==
  {f \in names : endswith(lower(f), <<".", "w", "a", "v">>) /\ pattern_match(f).matched}

\* the body of "for base, file_list in groups.items()": the one file of a group loses
\* its counter when the name without it is free
finalise_group(dir, file_list) ==
  IF Cardinality(file_list) # 1 THEN Ret(dir)
  ELSE Eval(CHOOSE f \in file_list : TRUE, LAMBDA f :
         Eval(pattern_match(f), LAMBDA m :
           IF ~m.matched \/ m.counter = <<>> THEN Ret(dir)
           ELSE IF path_exists(dir, m.base \o m.ext) THEN Ret(dir)
           ELSE os_rename(dir, f, m.base \o m.ext)))

(***************************************************************************)
(* SpecFixTimestamp: main and then finalise_filenames on a folder, as the  *)
(* script runs them                                                        *)
(***************************************************************************)
\* a name of the folder: prefix_site_timestamp, a counter if it has one, and the
\* extension
FixName(e) ==
  e.prefix \o <<"_">> \o e.site \o <<"_">> \o EncodeInstant(e.capture) \o e.counter \o e.ext

\* what the folder may hold: recordings of one Kenyan site three hours apart, a file
\* that already carries the counter 1, a recording with a prefix the script does not
\* know, a recording with an upper-case prefix late in the evening, and a text file;
\* offset is the offset of the region the script corrects the name by, if it does
FixEntries ==
  {[prefix |-> <<"k", "e", "n">>, site |-> <<"D", "1">>, capture |-> Instant(2023, 1, 1, 0, 0, 0),
    counter |-> <<>>, ext |-> <<".", "W", "A", "V">>, is_file |-> TRUE, audio |-> TRUE,
    corrected |-> TRUE, offset |-> -3],
   [prefix |-> <<"k", "e", "n">>, site |-> <<"D", "1">>, capture |-> Instant(2023, 1, 1, 3, 0, 0),
    counter |-> <<>>, ext |-> <<".", "W", "A", "V">>, is_file |-> TRUE, audio |-> TRUE,
    corrected |-> TRUE, offset |-> -3],
   [prefix |-> <<"k", "e", "n">>, site |-> <<"D", "1">>, capture |-> Instant(2023, 1, 1, 6, 0, 0),
    counter |-> <<>>, ext |-> <<".", "W", "A", "V">>, is_file |-> TRUE, audio |-> TRUE,
    corrected |-> TRUE, offset |-> -3],
   [prefix |-> <<"k", "e", "n">>, site |-> <<"D", "1">>, capture |-> Instant(2023, 1, 1, 3, 0, 0),
    counter |-> <<"_", "1">>, ext |-> <<".", "W", "A", "V">>, is_file |-> TRUE, audio |-> TRUE,
    corrected |-> FALSE, offset |-> 0],
   [prefix |-> <<"i", "n", "d">>, site |-> <<"D", "1">>, capture |-> Instant(2023, 1, 1, 0, 0, 0),
    counter |-> <<>>, ext |-> <<".", "W", "A", "V">>, is_file |-> TRUE, audio |-> TRUE,
    corrected |-> FALSE, offset |-> 0],
   [prefix |-> <<"M", "E", "X">>, site |-> <<"R", "2">>, capture |-> Instant(2023, 1, 1, 3, 0, 0),
    counter |-> <<>>, ext |-> <<".", "w", "a", "v">>, is_file |-> TRUE, audio |-> TRUE,
    corrected |-> TRUE, offset |-> 7],
   [prefix |-> <<"k", "e", "n">>, site |-> <<"D", "1">>, capture |-> Instant(2023, 1, 1, 0, 0, 0),
    counter |-> <<>>, ext |-> <<".", "t", "x", "t">>, is_file |-> TRUE, audio |-> FALSE,
    corrected |-> FALSE, offset |-> 0]}

InitFixTimestamp ==
  /\ NotRenameIdle
  /\ \E S \in SUBSET FixEntries :
       /\ S # {}
       /\ Cardinality(S) <= MaxFolder
       /\ folder_before = FolderOf(S, FixName)
  /\ folder = folder_before
  /\ listing = {}
  /\ rename_pc = "listdir"

\* "for fname in os.listdir(FOLDER_PATH)": the listing is taken
FixListdir ==
  /\ rename_pc = "listdir"
  /\ listing' = DOMAIN folder
  /\ rename_pc' = "loop"
  /\ UNCHANGED <<notRenameVars, folder_before, folder>>

\* one turn of main's loop
FixFile ==
  /\ rename_pc = "loop"
  /\ \E fname \in listing :
       \E r \in {fix_file(folder, fname)} :
         IF r.raised
         THEN /\ rename_pc' = "raised"
              /\ UNCHANGED <<folder, listing>>
         ELSE /\ folder' = r.val
              /\ listing' = listing \ {fname}
              /\ UNCHANGED rename_pc
  /\ UNCHANGED <<notRenameVars, folder_before>>

\* the listing is exhausted and main returns
FixReturn ==
  /\ rename_pc = "loop"
  /\ listing = {}
  /\ rename_pc' = "returned"
  /\ UNCHANGED <<notRenameVars, folder_before, folder, listing>>

\* finalise_filenames, called when main has returned: the listing is taken and the
\* names that match are put in groups by base; listing holds the names of the groups
\* the second loop has still to visit
FinaliseListdir ==
  /\ rename_pc = "returned"
  /\ listing' = grouped_names(DOMAIN folder)
  /\ rename_pc' = "groups"
  /\ UNCHANGED <<notRenameVars, folder_before, folder>>

\* one turn of "for base, file_list in groups.items()"
FinaliseGroup ==
  /\ rename_pc = "groups"
  /\ \E f \in listing :
       \E file_list \in {{g \in listing : pattern_match(g).base = pattern_match(f).base}} :
         \E r \in {finalise_group(folder, file_list)} :
           IF r.raised
           THEN /\ rename_pc' = "raised"
                /\ UNCHANGED <<folder, listing>>
           ELSE /\ folder' = r.val
                /\ listing' = listing \ file_list
                /\ UNCHANGED rename_pc
  /\ UNCHANGED <<notRenameVars, folder_before>>

\* the groups are exhausted and finalise_filenames returns
FinaliseReturn ==
  /\ rename_pc = "groups"
  /\ listing = {}
  /\ rename_pc' = "finalised"
  /\ UNCHANGED <<notRenameVars, folder_before, folder, listing>>

NextFixTimestamp ==
  FixListdir \/ FixFile \/ FixReturn \/ FinaliseListdir \/ FinaliseGroup \/ FinaliseReturn

SpecFixTimestamp == InitFixTimestamp /\ [][NextFixTimestamp]_vars

\* the names entry e may carry once its timestamp has been moved by minus its
\* region's offset: the corrected name, or that name with a counter
CorrectedOnce(e) ==
  LET moved == [e EXCEPT !.capture = CalShift(e.capture, 0 - e.offset)]
  IN  {FixName(moved)} \cup
      {FixName([moved EXCEPT !.counter = <<"_">> \o Decimal(k)]) : k \in 1..MaxFolder}

\* C26: main never renames onto a name that is taken, so the folder never loses an
\* entry and a name the loop has still to visit holds what it held at the start;
\* when main has returned there are as many recordings as before, each recording
\* the script corrects sits under one name with its timestamp moved by the region's
\* offset once, and everything else sits under its own name.
C26_NoCollision ==
  /\ Cardinality(DOMAIN folder) = Cardinality(DOMAIN folder_before)
  /\ rename_pc = "loop" =>
       \A n \in listing : n \in DOMAIN folder /\ folder[n] = folder_before[n]
  /\ rename_pc = "returned" =>
       /\ Cardinality(RecordingsIn(folder)) = Cardinality(RecordingsIn(folder_before))
       /\ \A n \in DOMAIN folder_before :
            LET e == folder_before[n].was
            IN  /\ Cardinality(NamesOf(e)) = 1
                /\ IF e.corrected THEN NamesOf(e) \subseteq CorrectedOnce(e)
                   ELSE NamesOf(e) = {n}

\* main has returned on a folder where a corrected name was taken twice over, by a
\* recording still to be visited and by a file carrying the counter 1, and the
\* recording got the counter 2
C26_Witness ==
  /\ rename_pc = "returned"
  /\ \E n \in DOMAIN folder_before :
       LET e == folder_before[n].was
           moved == [e EXCEPT !.capture = CalShift(e.capture, 0 - e.offset)]
       IN  /\ e.corrected
           /\ FixName(moved) \in DOMAIN folder_before
           /\ NamesOf(e) = {FixName([moved EXCEPT !.counter = <<"_", "2">>])}

(***************************************************************************)
(* SpecMonotone: the valid sets of a listing that grows.  The set at 0.9   *)
(* is the one load_raw_file_list of combine_counts.py keeps, the set at    *)
(* 0.95 the one get_valid_site_dates of temporal_overlap.py returns; the   *)
(* latter is also asked for the set at 0.9.                                *)
(***************************************************************************)
\* the (site, date) pairs of the combinations load_raw_file_list returns
pairs_of(df) == {<<r.site, r.date>> : r \in Rows(df)}

\* the valid sets of a listing: [raised |-> TRUE] when one of the calls raises
valid_sets_of(country, csv) ==
  Eval(load_raw_file_list(country, csv), LAMBDA kept :
    Eval(get_valid_site_dates(country, COVERAGE_THRESHOLD, csv), LAMBDA strict :
      Eval(get_valid_site_dates(country, FILE_COVERAGE, csv), LAMBDA loose :
        IF kept.raised \/ strict.raised \/ loose.raised THEN [raised |-> TRUE]
        ELSE [raised |-> FALSE, at90 |-> pairs_of(kept.val.df), at95 |-> strict.val.pairs,
              at90_same |-> loose.val.pairs])))

\* rows per recording in the listing at the start: none, one short of 90%, one
\* short of 95%
MonoCopies(c) == {0, AtNinety(c) - 1, AtNinetyFive(c) - 1}

\* how many times rows are added to the listing
MaxAdditions == 2

\* what the valid-set functions do not touch
notMonoVars ==
  <<parseVars, timeVars, expVars, runVars, valid_sets, mainVars, kernelVars, nightVars,
    richVars, aggregVars, renameVars, shiftVars, shannonVars, rerunVars>>

NotMonoIdle ==
  /\ ParseIdle
  /\ TimeIdle
  /\ ExpIdle
  /\ RunIdle
  /\ valid_sets = <<>>
  /\ MainIdle
  /\ KernelIdle
  /\ NightIdle
  /\ RichIdle
  /\ AggregIdle
  /\ RenameIdle
  /\ ShiftIdle
  /\ ShannonIdle
  /\ RerunIdle

InitMonotone ==
  /\ NotMonoIdle
  /\ mono_country \in DOMAIN COUNTRY_CONFIG
  /\ \E ks \in [ListedRecordings -> MonoCopies(mono_country)] :
       mono_listing = ListingOf(mono_country, ks)
  /\ mono_valid = <<>>
  /\ mono_pc = "listing"

\* load_raw_file_list(country) and get_valid_site_dates(country, threshold) on the
\* listing as it is
ComputeValidSets ==
  /\ mono_pc = "listing"
  /\ \E r \in {valid_sets_of(mono_country, mono_listing)} :
       IF r.raised
       THEN /\ mono_pc' = "raised"
            /\ UNCHANGED mono_valid
       ELSE /\ mono_valid' = Append(mono_valid, r)
            /\ mono_pc' = "computed"
  /\ UNCHANGED <<notMonoVars, mono_country, mono_listing>>

\* a row for one of the recordings is appended to raw_file_list.csv
AddRows ==
  /\ mono_pc = "computed"
  /\ Len(mono_valid) <= MaxAdditions
  /\ \E i \in DOMAIN Recordings :
       mono_listing' = [mono_listing EXCEPT !.rows =
                          Append(@, [filename |-> NameOf(mono_country, Recordings[i]),
                                     copies |-> 1])]
  /\ mono_pc' = "listing"
  /\ UNCHANGED <<notMonoVars, mono_country, mono_valid>>

NextMonotone == ComputeValidSets \/ AddRows

SpecMonotone == InitMonotone /\ [][NextMonotone]_vars

\* C30: for every listing the valid set at 0.95 is within the valid set at 0.9, and
\* a (site, day) that is valid stays valid at either threshold when rows are added
\* to the listing.
C30_ValidSetMonotone ==
  /\ \A i \in DOMAIN mono_valid :
       /\ mono_valid[i].at95 \subseteq mono_valid[i].at90
       /\ mono_valid[i].at95 \subseteq mono_valid[i].at90_same
  /\ \A i, j \in DOMAIN mono_valid :
       i < j => /\ mono_valid[i].at90 \subseteq mono_valid[j].at90
                /\ mono_valid[i].at95 \subseteq mono_valid[j].at95
                /\ mono_valid[i].at90_same \subseteq mono_valid[j].at90_same

\* rows were added twice to a listing that had a pair valid at 0.9 only: the first
\* row made a pair valid at 0.95, the second made another pair valid at 0.9, and a
\* pair is still valid at 0.9 only
C30_Witness ==
  /\ Len(mono_valid) = 3
  /\ mono_valid[1].at95 # mono_valid[1].at90
  /\ mono_valid[2].at95 # mono_valid[1].at95
  /\ mono_valid[3].at90 # mono_valid[2].at90
  /\ mono_valid[3].at95 # {}
  /\ mono_valid[3].at95 # mono_valid[3].at90

(***************************************************************************)
(* shannon_index.py: the Shannon index of the sounds detected per          *)
(* combination.  Its parse_treatment, parse_site, parse_date,              *)
(* get_expected_daily_recordings and load_raw_file_list are those of       *)
(* combine_counts.py statement for statement and are the same operators.   *)
(***************************************************************************)
\* df_temp.groupby([country, site, date, treatment, sound], as_index=False).size()
\* renamed to count: one row per combination of one sound folder
group_sound_rows(df_temp, sound_folder) ==
  {[country |-> r.country, site |-> r.site, date |-> r.date, treatment |-> r.treatment,
    sound |-> sound_folder, count |-> df_temp[r]] : r \in Rows(df_temp)}

RECURSIVE sound_count_folders(_, _, _)
\* the "for sound_folder in os.listdir(agile_dir)" loop of gather_sound_counts: the
\* frames appended to presence_rows and the records logged, also when a row raises;
\* a folder named snap is read like any other
sound_count_folders(folders, country, logit_cutoff) ==
  IF folders = <<>> THEN Ret([frames |-> <<>>, log |-> {}])
  ELSE LET f == Head(folders)
       IN  IF ~f.is_dir THEN sound_count_folders(Tail(folders), country, logit_cutoff)
           ELSE IF ~f.csv.exists
           THEN Eval(sound_count_folders(Tail(folders), country, logit_cutoff), LAMBDA rest :
                  LET mine == {[level |-> "info", what |-> "not using sound", sound |-> f.name]}
                  IN  IF rest.raised THEN [rest EXCEPT !.log = mine \cup @]
                      ELSE Ret([frames |-> rest.val.frames, log |-> mine \cup rest.val.log]))
           ELSE Eval(parse_rows(SelectSeq(f.csv.rows, LAMBDA e : e.logit >= logit_cutoff), country),
                     LAMBDA rows :
                  LET mine == {[level |-> "info", what |-> "using sound", sound |-> f.name,
                                country |-> country]}
                  IN  IF rows.raised
                      THEN [called |-> TRUE, raised |-> TRUE, exc |-> rows.exc, log |-> mine]
                      ELSE Eval(sound_count_folders(Tail(folders), country, logit_cutoff),
                                LAMBDA rest :
                             IF rest.raised THEN [rest EXCEPT !.log = mine \cup @]
                             ELSE Ret([frames |-> <<group_sound_rows(FrameOf(rows.val), f.name)>>
                                                    \o rest.val.frames,
                                       log |-> mine \cup rest.val.log])))

\* gather_sound_counts: the rows (country, site, date, treatment, sound, count) of
\* every sound folder that has its csv; no folder of one directory has the name of
\* another, so no row of the concatenation repeats
gather_sound_counts(country, logit_cutoff, agile) ==
  IF ~agile.exists
  THEN Ret([df |-> {},
            log |-> {[level |-> "warning", what |-> "no agile_outputs", country |-> country]}])
  ELSE Eval(sound_count_folders(agile.folders, country, logit_cutoff), LAMBDA r :
         IF r.raised THEN r
         ELSE IF r.val.frames = <<>> THEN Ret([df |-> {}, log |-> r.val.log])
         ELSE Ret([df |-> UNION {r.val.frames[i] : i \in DOMAIN r.val.frames},
                   log |-> r.val.log]))

RECURSIVE SumCounts(_)
\* df_group["count"].sum()
SumCounts(df_group) ==
  IF df_group = {} THEN 0
  ELSE LET r == CHOOSE x \in df_group : TRUE IN r.count + SumCounts(df_group \ {r})

\* a Shannon value is held as the proportions it is the entropy of; 0.0 is the
\* entropy of none
ZeroShannon == [entropy_of |-> {}]

\* compute_shannon: -(p * np.log(p)).sum() with p = count / total.  A term is zero
\* only for p = 1: a group of one row gives 0.0, a group of more rows a positive
\* number.
compute_shannon(df_group) ==
  LET total == SumCounts(df_group)
  IN  IF total = 0 THEN ZeroShannon
      ELSE IF Cardinality(df_group) = 1 THEN ZeroShannon
      ELSE [entropy_of |-> {[sound |-> r.sound, num |-> r.count, den |-> total] :
                              r \in df_group}]

\* df_sounds.groupby([country, site, date, treatment], as_index=False)
\*   .apply(lambda g: pd.Series({"shannon": compute_shannon(g)})): one value per key
shannon_by_group(frame) ==
  [k \in {KeyOf(r) : r \in frame} |-> compute_shannon({r \in frame : KeyOf(r) = k})]

\* how="inner" and no fill: only the combinations that have a Shannon value
merge_shannon_mut(coverage, df_sh) ==
  LET kept == {l \in Rows(coverage) : KeyOf(l) \in DOMAIN df_sh}
      row(l) == [country |-> l.country, site |-> l.site, date |-> l.date,
                 treatment |-> l.treatment, shannon |-> df_sh[KeyOf(l)]]
  IN  [x \in {row(l) : l \in kept} |-> coverage[CHOOSE l \in kept : row(l) = x]]

\* pd.merge(df_coverage, df_sh[[the four keys, "shannon"]], how="left", on=[the four
\* keys]) and df["shannon"].fillna(0); df_sh has one row per key
merge_shannon(coverage, df_sh) ==
  LET row(l) == [country |-> l.country, site |-> l.site, date |-> l.date,
                 treatment |-> l.treatment,
                 shannon |-> IF KeyOf(l) \in DOMAIN df_sh THEN df_sh[KeyOf(l)]
                             ELSE ZeroShannon]
  IN  [x \in {row(l) : l \in Rows(coverage)} |->
         coverage[CHOOSE l \in Rows(coverage) : row(l) = x]]

\* lines 235-261 of process_country_shannon: without a sound row the coverage table
\* is merged with an empty frame, otherwise with the Shannon value of every group
shannon_table(coverage, frame) ==
  IF frame = {} THEN merge_shannon(coverage, <<>>)
  ELSE merge_shannon(coverage, shannon_by_group(frame))

(***************************************************************************)
(* SpecZeroFill: process_country of combine_counts.py,                     *)
(* process_country_phonic_richness and process_country_shannon on the      *)
(* files of one region                                                     *)
(***************************************************************************)
\* the logits, in tenths, the csv of a sound folder other than scrape gives the
\* four recordings
ZeroFillLogits == [snap |-> <<20, 20, 9, 9>>, grunt |-> <<20, 9, 9, 9>>]

\* agile_outputs: missing; without any csv; a folder named snap in capitals, the
\* scrape folder, one more sound, a stray file and a folder without its csv; the same
\* with no scrape row for the third recording; a scrape folder whose rows are all
\* below the cutoff
ZeroFillAgile(c) ==
  <<[exists |-> FALSE],
    [exists |-> TRUE,
     folders |-> <<[name |-> <<"l", "o", "g">>, is_dir |-> FALSE],
                   [name |-> <<"h", "u", "m">>, is_dir |-> TRUE, csv |-> [exists |-> FALSE]]>>],
    [exists |-> TRUE,
     folders |-> <<[name |-> <<"S", "N", "A", "P">>, is_dir |-> TRUE,
                    csv |-> InferenceOf(c, ZeroFillLogits.snap)],
                   [name |-> SOUND, is_dir |-> TRUE, csv |-> InferenceOf(c, InferLogit)],
                   [name |-> <<"g", "r", "u", "n", "t">>, is_dir |-> TRUE,
                    csv |-> InferenceOf(c, ZeroFillLogits.grunt)],
                   [name |-> <<"l", "o", "g">>, is_dir |-> FALSE],
                   [name |-> <<"h", "u", "m">>, is_dir |-> TRUE, csv |-> [exists |-> FALSE]]>>],
    [exists |-> TRUE,
     folders |-> <<[name |-> SNAP, is_dir |-> TRUE,
                    csv |-> InferenceOf(c, ZeroFillLogits.snap)],
                   [name |-> SOUND, is_dir |-> TRUE,
                    csv |-> [exists |-> TRUE,
                             rows |-> SelectSeq(InferenceOf(c, InferLogit).rows,
                                                LAMBDA e : e.filename
                                                             # NameOf(c, Recordings[3]))]],
                   [name |-> <<"g", "r", "u", "n", "t">>, is_dir |-> TRUE,
                    csv |-> InferenceOf(c, ZeroFillLogits.grunt)]>>],
    [exists |-> TRUE,
     folders |-> <<[name |-> SOUND, is_dir |-> TRUE,
                    csv |-> InferenceOf(c, <<9, 9, 9, 9>>)]>>]>>

\* agile_outputs/<sound>/<sound>_inference.csv, the file load_inference_counts reads
inference_file(agile, sound) ==
  IF agile.exists /\ \E k \in DOMAIN agile.folders :
                       agile.folders[k].name = sound /\ agile.folders[k].is_dir
  THEN agile.folders[CHOOSE k \in DOMAIN agile.folders :
                       agile.folders[k].name = sound /\ agile.folders[k].is_dir].csv
  ELSE [exists |-> FALSE]

InitZeroFill ==
  /\ ParseIdle
  /\ TimeIdle
  /\ ExpIdle
  /\ valid_sets = <<>>
  /\ MainIdle
  /\ KernelIdle
  /\ NightIdle
  /\ AggregIdle
  /\ RenameIdle
  /\ ShiftIdle
  /\ MonoIdle
  /\ RerunIdle
  /\ country_arg \in DOMAIN COUNTRY_CONFIG
  /\ \E l \in DOMAIN RichListings(country_arg), a \in DOMAIN ZeroFillAgile(country_arg) :
       /\ raw_file_list = RichListings(country_arg)[l]
       /\ inference_csv = inference_file(ZeroFillAgile(country_arg)[a], SOUND)
       /\ rich_files = [raw_file_list |-> RichListings(country_arg)[l],
                        agile |-> ZeroFillAgile(country_arg)[a]]
  /\ shannon_files = rich_files
  /\ rich_country = country_arg
  /\ shannon_country = country_arg
  /\ pc = "start"
  /\ df_raw_combos = EmptyFrame
  /\ df_infer_counts = EmptyFrame
  /\ df_merged = EmptyFrame
  /\ log = {}
  /\ df_coverage = {}
  /\ df_presence = <<>>
  /\ df_rich = {}
  /\ rich_log = {}
  /\ rich_pc = "start"
  /\ df_sh_coverage = EmptyFrame
  /\ df_sounds = {}
  /\ df_shannon = EmptyFrame
  /\ shannon_log = {}
  /\ shannon_pc = "start"

notShannonVars ==
  <<parseVars, timeVars, expVars, runVars, valid_sets, mainVars, kernelVars, nightVars,
    richVars, aggregVars, renameVars, shiftVars, monoVars, rerunVars>>

\* df_coverage = load_raw_file_list(country)
ShannonLoadCoverage ==
  /\ shannon_pc = "start"
  /\ \E r \in {load_raw_file_list(shannon_country, shannon_files.raw_file_list)} :
       IF r.raised
       THEN /\ shannon_pc' = "raised"
            /\ UNCHANGED <<df_sh_coverage, shannon_log>>
       ELSE /\ df_sh_coverage' = r.val.df
            /\ shannon_log' = shannon_log \cup r.val.log
            /\ shannon_pc' = "coverage"
  /\ UNCHANGED <<notShannonVars, shannon_country, shannon_files, df_sounds, df_shannon>>

\* df_sounds = gather_sound_counts(country, LOGIT_CUTOFF)
ShannonGatherSoundCounts ==
  /\ shannon_pc = "coverage"
  /\ \E r \in {gather_sound_counts(shannon_country, LOGIT_CUTOFF, shannon_files.agile)} :
       IF r.raised
       THEN /\ shannon_pc' = "raised"
            /\ shannon_log' = shannon_log \cup r.log
            /\ UNCHANGED df_sounds
       ELSE /\ df_sounds' = r.val.df
            /\ shannon_log' = shannon_log \cup r.val.log
            /\ shannon_pc' = "sounds"
  /\ UNCHANGED <<notShannonVars, shannon_country, shannon_files, df_sh_coverage, df_shannon>>

\* the Shannon value per group, the left merge, the fill and the return
ShannonMerge ==
  /\ shannon_pc = "sounds"
  /\ df_shannon' = shannon_table(df_sh_coverage, df_sounds)
  /\ shannon_pc' = "returned"
  /\ UNCHANGED <<notShannonVars, shannon_country, shannon_files, df_sh_coverage, df_sounds,
                 shannon_log>>

NextZeroFill ==
  \/ LoadRawFileList \/ LoadInferenceCounts \/ MergeCounts
  \/ LoadCoverage \/ GatherSoundPresence \/ MergeRichness
  \/ ShannonLoadCoverage \/ ShannonGatherSoundCounts \/ ShannonMerge

SpecZeroFill == InitZeroFill /\ [][NextZeroFill]_vars

(***************************************************************************)
(* Claim on the zero-filled tables (SpecZeroFill), stated on the           *)
(* recordings the files were made of                                       *)
(***************************************************************************)
\* the rows of a table that stand for the combination of recording i
RowsFor(rows, i) ==
  {r \in rows :
     /\ r.country = country_arg
     /\ IsRowOf(r, TrueGroup(i))
     /\ r.treatment = Recordings[i].treatment}

\* the csv of the folder f has a row at or above 1.0 of a recording of the
\* combination of recording i
FolderDetects(f, i) ==
  /\ f.is_dir
  /\ f.csv.exists
  /\ \E n \in DOMAIN f.csv.rows, j \in DOMAIN Recordings :
       /\ f.csv.rows[n].filename = NameOf(country_arg, Recordings[j])
       /\ f.csv.rows[n].logit >= 10
       /\ TrueGroup(j) = TrueGroup(i)
       /\ Recordings[j].treatment = Recordings[i].treatment

\* the name is snap in some letter case
NamedSnap(name) ==
  /\ Len(name) = 4
  /\ \A j \in 1..4 : name[j] \in {SNAP[j], <<"S", "N", "A", "P">>[j]}

\* the sound folders that detected the combination of recording i
DetectingFolders(agile, i) ==
  IF ~agile.exists THEN {}
  ELSE {k \in DOMAIN agile.folders : FolderDetects(agile.folders[k], i)}

\* C10: every coverage-valid (country, site, day, treatment) combination appears
\* exactly once in the table of combine_counts, in the phonic richness table and in
\* the Shannon table, and where no detection exists for it the row is there with 0:
\* count 0 without a detection of the sound, richness 0 without a detection in any
\* folder other than snap, shannon 0 without a detection in any folder.
C10_ValidOnceZeroFilled ==
  /\ pc = "returned" =>
       \A i \in ValidListed :
         /\ Cardinality(RowsOfCombination(i)) = 1
         /\ \A r \in RowsOfCombination(i) :
              /\ df_merged[r] = 1
              /\ ~CombinationDetected(i) => r.count = 0
  /\ rich_pc = "returned" =>
       \A i \in ValidListed :
         /\ Cardinality(RowsFor(df_rich, i)) = 1
         /\ \A r \in RowsFor(df_rich, i) :
              (\A k \in DetectingFolders(rich_files.agile, i) :
                 NamedSnap(rich_files.agile.folders[k].name)) => r.count = 0
  /\ shannon_pc = "returned" =>
       \A i \in ValidListed :
         /\ Cardinality(RowsFor(Rows(df_shannon), i)) = 1
         /\ \A r \in RowsFor(Rows(df_shannon), i) :
              /\ df_shannon[r] = 1
              /\ DetectingFolders(shannon_files.agile, i) = {} => r.shannon = ZeroShannon

\* the three tables of one region are returned: a valid combination that no folder
\* detected is in each of them with 0, and a valid combination that several folders
\* detected has a positive count, richness and Shannon value
C10_Witness ==
  /\ pc = "returned"
  /\ rich_pc = "returned"
  /\ shannon_pc = "returned"
  /\ \E i \in ValidListed :
       /\ ~CombinationDetected(i)
       /\ DetectingFolders(shannon_files.agile, i) = {}
       /\ \E r \in RowsOfCombination(i) : r.count = 0 /\ df_merged[r] = 1
       /\ \E r \in RowsFor(df_rich, i) : r.count = 0
       /\ \E r \in RowsFor(Rows(df_shannon), i) : r.shannon = ZeroShannon /\ df_shannon[r] = 1
  /\ \E i \in ValidListed :
       /\ CombinationDetected(i)
       /\ Cardinality(DetectingFolders(shannon_files.agile, i)) > 1
       /\ \E r \in RowsOfCombination(i) : r.count > 0
       /\ \E r \in RowsFor(df_rich, i) : r.count > 0
       /\ \E r \in RowsFor(Rows(df_shannon), i) : r.shannon # ZeroShannon

(***************************************************************************)
(* SpecRerun: combine_counts.py and temporal_overlap.py run as scripts,    *)
(* again and again in any order, on a disk that holds the files of one     *)
(* region.  Each run reads the listing from the disk and writes its        *)
(* results to the disk.                                                    *)
(***************************************************************************)
MaxRuns == 2

\* a path under BASE_DIR: the directory, the region and the stem that are formatted
\* into it, and the literal it ends with
Path(root, country, stem, name) ==
  [root |-> root, country |-> country, stem |-> stem, name |-> name]

\* os.path.join(BASE_DIR, "marrs_acoustics/data", f"output_dir_{country}",
\*              "raw_file_list.csv")
raw_list_path(country) ==
  Path("marrs_acoustics/data/output_dir_", country, "", "raw_file_list.csv")

\* os.path.join(BASE_DIR, "marrs_acoustics/data", f"output_dir_{country}", "agile_outputs")
agile_dir(country) ==
  Path("marrs_acoustics/data/output_dir_", country, "", "agile_outputs")

\* os.path.join(BASE_DIR, "marrs_acoustics/data/results/functions",
\*              f"{SOUND}_combined_count.csv")
OUTPUT_PATH ==
  Path("marrs_acoustics/data/results/functions", "", "scrape", "_combined_count.csv")

\* the detection times saved as the region's raw_file_list.csv
raw_csv_path_mut(country, sound_folder) ==
  Path("marrs_acoustics/data/output_dir_", country, "", "raw_file_list.csv")

\* os.path.join(KERNEL_PLOTS_DIR, country, f"{sound_folder}_raw_detection_times.csv")
raw_csv_path(country, sound_folder) ==
  Path("marrs_acoustics/data/results/functions/kernels/plots", country, sound_folder,
       "_raw_detection_times.csv")

\* os.path.join(KERNEL_PLOTS_DIR, country, f"{sound_folder}.png")
plot_path(country, sound_folder) ==
  Path("marrs_acoustics/data/results/functions/kernels/plots", country, sound_folder, ".png")

\* os.path.isfile(path) or os.path.isdir(path), and what is read there
read(files_on_disk, path) ==
  IF path \in DOMAIN files_on_disk THEN files_on_disk[path] ELSE [exists |-> FALSE]

\* the disk after the files of written have been saved
write(files_on_disk, written) ==
  [p \in DOMAIN files_on_disk \cup DOMAIN written |->
     IF p \in DOMAIN written THEN written[p] ELSE files_on_disk[p]]

\* df_records.to_csv(raw_csv_path) and plt.savefig(plot_path) for every sound of out
kernel_files_written(out) ==
  [p \in UNION {{raw_csv_path(o.country, o.sound), plot_path(o.country, o.sound)} : o \in out}
     |-> LET o == CHOOSE x \in out : p \in {raw_csv_path(x.country, x.sound),
                                            plot_path(x.country, x.sound)}
         IN  IF p = plot_path(o.country, o.sound)
             THEN [exists |-> TRUE, kernels |-> o.kernels]
             ELSE [exists |-> TRUE, rows |-> o.records]]

\* the listings the region may come with: none; one site at 95% and one between 90%
\* and 95%; one site at 90% and one just below; the rows of a site spread over two
\* recordings that make one local day or two
RerunListings(c) ==
  <<[exists |-> FALSE],
    ListingOf(c, <<AtNinetyFive(c), 0, AtNinetyFive(c) - 1>>),
    ListingOf(c, <<AtNinety(c) - 1, 0, AtNinety(c)>>),
    ListingOf(c, <<AtNinetyFive(c) - SmallCount, SmallCount, AtNinety(c)>>)>>

RerunAgile(c) == <<[exists |-> FALSE], AgileOutputs(c)>>

InitRerun ==
  /\ ParseIdle
  /\ TimeIdle
  /\ ExpIdle
  /\ MainIdle
  /\ KernelIdle
  /\ NightIdle
  /\ RichIdle
  /\ AggregIdle
  /\ RenameIdle
  /\ ShiftIdle
  /\ MonoIdle
  /\ ShannonIdle
  /\ country_arg \in DOMAIN COUNTRY_CONFIG
  /\ raw_file_list \in {RerunListings(country_arg)[l] : l \in DOMAIN RerunListings(country_arg)}
  /\ \E a \in DOMAIN RerunAgile(country_arg) :
       /\ inference_csv = inference_file(RerunAgile(country_arg)[a], "scrape")
       /\ disk = [p \in (IF raw_file_list.exists THEN {raw_list_path(country_arg)} ELSE {})
                          \cup (IF RerunAgile(country_arg)[a].exists
                                THEN {agile_dir(country_arg)} ELSE {})
                    |-> IF p = raw_list_path(country_arg) THEN raw_file_list
                        ELSE RerunAgile(country_arg)[a]]
  /\ pc = "idle"
  /\ df_raw_combos = EmptyFrame
  /\ df_infer_counts = EmptyFrame
  /\ df_merged = EmptyFrame
  /\ log = {}
  /\ valid_sets = <<>>
  /\ rerun_todo = <<>>
  /\ rerun_df = EmptyFrame
  /\ rerun_done = [combine_counts |-> 0, temporal_overlap |-> 0]
  /\ rerun_pc = "none"

\* what the scripts of SpecRerun do not touch
notRerunVars ==
  <<parseVars, timeVars, expVars, mainVars, kernelVars, nightVars, richVars, aggregVars,
    renameVars, shiftVars, monoVars, shannonVars, country_arg, raw_file_list, inference_csv,
    pc, df_raw_combos, df_infer_counts, df_merged>>

\* combine_counts.py is started with BASE_DIR set: the module body and main up to
\* "for country in COUNTRIES"
StartCombineCounts ==
  /\ rerun_pc = "none"
  /\ rerun_done.combine_counts < MaxRuns
  /\ rerun_pc' = "combine_counts"
  /\ rerun_todo' = COUNTRIES
  /\ rerun_df' = EmptyFrame
  /\ UNCHANGED <<notRerunVars, log, valid_sets, disk, rerun_done>>

\* one turn of "for country in COUNTRIES": process_country reads the region's listing
\* and inference csv from the disk; the valid set is what its call of
\* load_raw_file_list returned
CombineCountsCountry ==
  /\ rerun_pc = "combine_counts"
  /\ rerun_todo # <<>>
  /\ LET country == Head(rerun_todo)
         raw_csv == read(disk, raw_list_path(country))
         infer_csv == inference_file(read(disk, agile_dir(country)), "scrape")
     IN  \E r \in {process_country(country, SOUND, LOGIT_CUTOFF, raw_csv, infer_csv)} :
           IF r.raised
           THEN /\ rerun_pc' = "raised"
                /\ log' = log \cup {[level |-> "info", what |-> "processing",
                                     country |-> country]} \cup r.log
                /\ UNCHANGED <<rerun_todo, rerun_df, valid_sets>>
           ELSE /\ rerun_df' = concat(rerun_df, r.val.df)
                /\ rerun_todo' = Tail(rerun_todo)
                /\ log' = log \cup {[level |-> "info", what |-> "processing",
                                     country |-> country]} \cup r.val.log
                /\ valid_sets' =
                     Append(valid_sets,
                            [script |-> "combine_counts", country |-> country,
                             threshold |-> FILE_COVERAGE,
                             pairs |-> pairs_of(load_raw_file_list(country, raw_csv).val.df)])
                /\ rerun_pc' = rerun_pc
  /\ UNCHANGED <<notRerunVars, disk, rerun_done>>

\* after the loop: sort_values, to_csv(OUTPUT_PATH) and the end of the script
CombineCountsSave ==
  /\ rerun_pc = "combine_counts"
  /\ rerun_todo = <<>>
  /\ disk' = write(disk, OUTPUT_PATH :> [exists |-> TRUE, rows |-> sort_values(rerun_df)])
  /\ log' = log \cup {[level |-> "info", what |-> "saved"]}
  /\ rerun_done' = [rerun_done EXCEPT !.combine_counts = @ + 1]
  /\ rerun_pc' = "none"
  /\ UNCHANGED <<notRerunVars, valid_sets, rerun_todo, rerun_df>>

\* temporal_overlap.py is started with BASE_DIR set: the module body and main up to
\* "for country in COUNTRY_CONFIG.keys()"
StartTemporalOverlap ==
  /\ rerun_pc = "none"
  /\ rerun_done.temporal_overlap < MaxRuns
  /\ rerun_pc' = "temporal_overlap"
  /\ rerun_todo' = COUNTRIES
  /\ UNCHANGED <<notRerunVars, log, valid_sets, disk, rerun_df, rerun_done>>

\* one turn of main's loop: get_valid_site_dates reads the region's listing from the
\* disk, process_sound_country saves the detection times and the plot of every sound
\* with a detection on a valid pair; the script ends with the last region
TemporalOverlapCountry ==
  /\ rerun_pc = "temporal_overlap"
  /\ rerun_todo # <<>>
  /\ LET country == Head(rerun_todo)
         raw_csv == read(disk, raw_list_path(country))
         agile == read(disk, agile_dir(country))
         last == Tail(rerun_todo) = <<>>
     IN  \E valid \in {get_valid_site_dates(country, COVERAGE_THRESHOLD, raw_csv)} :
           IF valid.raised
           THEN /\ rerun_pc' = "raised"
                /\ UNCHANGED <<rerun_todo, rerun_done, valid_sets, disk, log>>
           ELSE /\ valid_sets' =
                     Append(valid_sets,
                            [script |-> "temporal_overlap", country |-> country,
                             threshold |-> COVERAGE_THRESHOLD, pairs |-> valid.val.pairs])
                /\ IF valid.val.pairs = {}
                   THEN /\ log' = log \cup valid.val.log \cup
                                    {[level |-> "info", what |-> "skipping",
                                      country |-> country]}
                        /\ rerun_todo' = Tail(rerun_todo)
                        /\ rerun_pc' = IF last THEN "none" ELSE rerun_pc
                        /\ rerun_done' = IF last
                                         THEN [rerun_done EXCEPT !.temporal_overlap = @ + 1]
                                         ELSE rerun_done
                        /\ UNCHANGED disk
                   ELSE \E zero_cov \in SUBSET rounding_decides(
                                           process_sound_country(country, valid.val.pairs,
                                                                 agile, {}).out) :
                        \E r \in {process_sound_country(country, valid.val.pairs, agile,
                                                        zero_cov)} :
                          /\ disk' = write(disk, kernel_files_written(r.out))
                          /\ log' = log \cup valid.val.log \cup r.log
                          /\ IF r.exc = "none"
                             THEN /\ rerun_todo' = Tail(rerun_todo)
                                  /\ rerun_pc' = IF last THEN "none" ELSE rerun_pc
                                  /\ rerun_done' =
                                       IF last
                                       THEN [rerun_done EXCEPT !.temporal_overlap = @ + 1]
                                       ELSE rerun_done
                             ELSE /\ rerun_pc' = "raised"
                                  /\ UNCHANGED <<rerun_todo, rerun_done>>
  /\ UNCHANGED <<notRerunVars, rerun_df>>

NextRerun ==
  \/ StartCombineCounts \/ CombineCountsCountry \/ CombineCountsSave
  \/ StartTemporalOverlap \/ TemporalOverlapCountry

SpecRerun == InitRerun /\ [][NextRerun]_vars

(***************************************************************************)
(* Claim on repeated runs (SpecRerun), stated on the listing the disk held *)
(* before the first run and on the recordings it was made of               *)
(***************************************************************************)
\* the (site, day) groups of the listing whose record count is at least the
\* threshold times floor(1440 / duty cycle)
DecidedValid(threshold) ==
  {g \in ListedGroups : Observed(g) * threshold.den >= threshold.num * ExpectedPerDay}

\* the pairs are those of the groups, one pair for every group
PairsAre(pairs, groups) ==
  /\ \A p \in pairs : \E g \in groups : p[1] = g.site /\ ReadsAsDay(p[2], g.day)
  /\ \A g \in groups : \E p \in pairs : p[1] = g.site /\ ReadsAsDay(p[2], g.day)
  /\ Cardinality(pairs) = Cardinality(groups)

\* C11: the valid set of a run is decided by the listing, the duty cycle and the
\* threshold alone: whatever ran before and whatever the earlier runs have written,
\* every run of load_raw_file_list (at 0.9) and of get_valid_site_dates (at 0.95)
\* returns the set those three determine, so two runs of one script return identical
\* sets; and the runs, which write their results to the disk, leave the listing as
\* it was and create no listing for another region.  The region configuration is
\* COUNTRY_CONFIG, which the module body assigns once and no run assigns again.
C11_FilterIsPure ==
  /\ \A k \in DOMAIN valid_sets :
       IF valid_sets[k].country = country_arg
       THEN PairsAre(valid_sets[k].pairs, DecidedValid(valid_sets[k].threshold))
       ELSE valid_sets[k].pairs = {}
  /\ \A j, k \in DOMAIN valid_sets :
       (valid_sets[j].script = valid_sets[k].script
          /\ valid_sets[j].country = valid_sets[k].country)
         => valid_sets[j].pairs = valid_sets[k].pairs
  /\ read(disk, raw_list_path(country_arg)) = raw_file_list
  /\ \A c \in DOMAIN COUNTRY_CONFIG \ {country_arg} : raw_list_path(c) \notin DOMAIN disk

\* each script has run twice on a disk that by then held the combined counts and the
\* detection times of earlier runs: the runs at 0.9 returned one set, the runs at
\* 0.95 another, smaller one, and the listing is as it was
C11_Witness ==
  /\ rerun_done = [combine_counts |-> 2, temporal_overlap |-> 2]
  /\ OUTPUT_PATH \in DOMAIN disk
  /\ \E p \in DOMAIN disk : p.name = "_raw_detection_times.csv"
  /\ read(disk, raw_list_path(country_arg)) = raw_file_list
  /\ \E j, k \in DOMAIN valid_sets :
       /\ j < k
       /\ valid_sets[j].script = "temporal_overlap"
       /\ valid_sets[k].script = "temporal_overlap"
       /\ valid_sets[j].country = country_arg
       /\ valid_sets[k].country = country_arg
       /\ valid_sets[j].pairs # {}
       /\ valid_sets[k].pairs = valid_sets[j].pairs
       /\ \E m, n \in DOMAIN valid_sets :
            /\ m < j
            /\ k < n
            /\ valid_sets[m].script = "combine_counts"
            /\ valid_sets[n].script = "combine_counts"
            /\ valid_sets[m].country = country_arg
            /\ valid_sets[n].country = country_arg
            /\ valid_sets[n].pairs = valid_sets[m].pairs
            /\ valid_sets[m].pairs # valid_sets[j].pairs

====
